---- MODULE Spec2Model ----
(***************************************************************************)
(* The incremental payment tracker (src/unnamed/part_002): per-provider    *)
(* watermark (last_processed_block), reconciliation of fetched USDC        *)
(* transfers against the TBA allow-list, and the ledger / leaderboard      *)
(* writes.                                                                 *)
(*                                                                         *)
(* The persisted state is the three tables the tracker writes.  Every step *)
(* of the model is one database statement or transaction as committed, so  *)
(* the states of the model are exactly the committed states a reader (or   *)
(* the next run after a kill) can observe.                                 *)
(*                                                                         *)
(* Spec models the provider loop from the call of processProviderTrans-    *)
(* actions on (part_002 lines 499-531).                                    *)
(***************************************************************************)
EXTENDS Integers, Sequences, FiniteSets, TLC

(***************************************************************************)
(* Program constants (defaults of the environment knobs).                  *)
(***************************************************************************)
BLOCK_SAFETY_BUFFER == 10
CONSERVATIVE_BLOCK_ADVANCE == 100
CORRUPTION_TOLERANCE == 1000
MAX_REASONABLE_BLOCK == 100000000
CHECKPOINT_LAG == 1000
MAX_NORMAL_ADVANCE == 10000
MAX_RETRIES == 3
maxCallsPerSecond == 1

(***************************************************************************)
(* Bounds of the model.                                                    *)
(***************************************************************************)
MaxRuns == 2
MaxUpstream == 2
MaxInvocations == 2
MaxFetched == 3
MaxTrackerRuns == 2
MaxWaitCalls == 2
MaxTicks == 6
TickMs == 500

NULL == 0 - 1

(***************************************************************************)
(* Addresses are strings; ToLowerCase is String.prototype.toLowerCase on   *)
(* the addresses of the model.  The explorer API answers in lower case;    *)
(* the registry notes (~wallet, tba) may be written in mixed case.         *)
(***************************************************************************)
ToLowerCase(a) ==
    CASE a = "0xAB" -> "0xab"
      [] a = "0xW2" -> "0xw2"
      [] OTHER -> a

(***************************************************************************)
(* The providers discovered under grid-beta.hypr, in list order, and their *)
(* ~wallet notes.                                                          *)
(***************************************************************************)
Providers == <<"p1", "p2">>
ProviderSet == {Providers[i] : i \in 1..Len(Providers)}

wallet_address(p) == IF p = "p1" THEN "0xw1" ELSE "0xW2"

(***************************************************************************)
(* buildTbaLookup: the keys of the map are the lower-cased tba values.     *)
(***************************************************************************)
TbaEntries == {"0xa1", "0xAB"}
buildTbaLookup == {ToLowerCase(tba) : tba \in TbaEntries}

(***************************************************************************)
(* The token transfers that can exist upstream.  value is in units of      *)
(* 10^-6 USDC (value_usdc is DECIMAL(20,6), so tx.value / 1e6 is stored    *)
(* exactly).  Two transfers of one transaction share hash, block and time. *)
(***************************************************************************)
Transfer(h, b, f, t, v) ==
    [hash |-> h, blockNumber |-> b, timeStamp |-> 2 * b, from |-> f, to |-> t, value |-> v]

Transfers ==
    { Transfer("h1", 10, "0xa1", "0xw1", 5),
      Transfer("h2", 50, "0xw2", "0xw1", 7),
      Transfer("h3", 90, "0xab", "0xw1", 3),
      Transfer("h3", 90, "0xa1", "0xw1", 1),
      Transfer("h4", 250, "0xab", "0xw2", 6) }

Heights == {100, 260}
InitWatermarks == {120, 1300}

VARIABLES
    upstream,               \* transfers the explorer API has indexed
    apiOutOfRange,          \* the API also returns transfers outside [startblock, endblock]
    requireDefined,         \* the loader binds `require` (CommonJS) or not (ES module)
    invocations,            \* event loop: the calls of runPaymentTracker in flight (daemon)
    call,                   \* a single call of one function: its arguments and what it returned
    tracker_state,          \* table: the single row of run counters and last_error
    job,                    \* runPaymentTracker as a whole: where the call stands
    global_state,           \* table of the global-watermark version: its single row
    globalRun,              \* runPaymentTracker of the global-watermark version: where it stands
    rateLimiter,            \* the shared RateLimiter, the clock and the callers of wait()
    hypermap_transactions,  \* table: set of rows, tx_hash UNIQUE
    provider_leaderboard,   \* table: provider -> row (present = row exists)
    block_processing_log,   \* table: set of rows
    runs,                   \* completed runs
    running,                \* a run is in progress
    safeBlockHeight,        \* of the run in progress (or of the last run)
    idx,                    \* position of the provider loop
    status,                 \* provider -> where its iteration stands
    pending,                \* provider -> what processProviderTransactions returned
    base,                   \* provider -> committed state when its batch was decided
    runStart,               \* history: provider_leaderboard when the run began
    prevRun                 \* history: how the run before ended

envVars == <<upstream, apiOutOfRange, requireDefined, invocations, call, tracker_state, job,
            global_state, globalRun, rateLimiter>>
dbVars == <<hypermap_transactions, provider_leaderboard, block_processing_log>>
runVars == <<runs, running, safeBlockHeight, idx, status, pending, base, runStart, prevRun>>
vars == <<envVars, dbVars, runVars>>

(***************************************************************************)
(* Small helpers.                                                          *)
(***************************************************************************)
Min(a, b) == IF a < b THEN a ELSE b
Max(a, b) == IF a > b THEN a ELSE b

Range(s) == {s[i] : i \in 1..Len(s)}

RECURSIVE SumRows(_)
SumRows(S) ==
    IF S = {} THEN 0
    ELSE LET x == CHOOSE y \in S : TRUE IN x.value_usdc + SumRows(S \ {x})

RECURSIVE SumSeq(_)
SumSeq(s) == IF s = <<>> THEN 0 ELSE s[1].valueUsdc + SumSeq(Tail(s))

Orderings(S) ==
    {s \in [1..Cardinality(S) -> S] : \A i, j \in 1..Cardinality(S) : s[i] = s[j] => i = j}

(***************************************************************************)
(* Array.prototype.sort with the comparator of line 267: stable, ascending *)
(* by blockNumber.                                                         *)
(***************************************************************************)
RECURSIVE SortByBlock(_)
SortByBlock(s) ==
    IF Len(s) <= 1 THEN s
    ELSE LET rest == SortByBlock(SubSeq(s, 1, Len(s) - 1))
             x == s[Len(s)]
             k == Cardinality({i \in 1..Len(rest) : rest[i].blockNumber <= x.blockNumber})
         IN SubSeq(rest, 1, k) \o <<x>> \o SubSeq(rest, k + 1, Len(rest))

(***************************************************************************)
(* provider_leaderboard rows.                                              *)
(***************************************************************************)
NoRow ==
    [present |-> FALSE, last_processed_block |-> 0, total_usdc_received |-> 0,
     transaction_count |-> 0, unique_sender_count |-> 0,
     first_transaction_at |-> NULL, last_transaction_at |-> NULL,
     last_transaction_block |-> 0, processing_checkpoint |-> 0]

\* getProviderCurrentStats: the row of the provider, or the zero defaults.
getProviderCurrentStats(p) ==
    IF provider_leaderboard[p].present THEN provider_leaderboard[p] ELSE NoRow

\* variant: the upper bound of the constraint is inclusive
reasonable_block_number_Inclusive(b) == b >= 0 /\ b <= MAX_REASONABLE_BLOCK

\* CONSTRAINT reasonable_block_number of provider_leaderboard.
reasonable_block_number(b) == b >= 0 /\ b < MAX_REASONABLE_BLOCK

\* CONSTRAINT reasonable_block_change of block_processing_log.
reasonable_block_change(old, new, changeType) ==
    \/ changeType = "normal_advance" /\ new - old >= 0 /\ new - old <= MAX_NORMAL_ADVANCE
    \/ changeType \in {"corruption_fix", "reset", "conservative_advance"}

\* GREATEST / COALESCE of PostgreSQL on the nullable timestamps.
Greatest(a, b) == IF a = NULL THEN b ELSE IF b = NULL THEN a ELSE Max(a, b)
Coalesce(a, b) == IF a = NULL THEN b ELSE a

(***************************************************************************)
(* validateAndFixBlockNumber.                                              *)
(***************************************************************************)
\* variant: every value above the tolerance is capped at the observed height
validateAndFixBlockNumber_AlwaysCapped(blockNumber, currentHeight) ==
    IF blockNumber > currentHeight + CORRUPTION_TOLERANCE
    THEN currentHeight
    ELSE blockNumber

\* variant: the corruption test without its 1000-block tolerance
validateAndFixBlockNumber_NoTolerance(blockNumber, currentHeight) ==
    IF blockNumber > currentHeight
    THEN IF blockNumber > MAX_REASONABLE_BLOCK
         THEN blockNumber \div 10
         ELSE currentHeight
    ELSE blockNumber

validateAndFixBlockNumber(blockNumber, currentHeight) ==
    IF blockNumber > currentHeight + CORRUPTION_TOLERANCE
    THEN IF blockNumber > MAX_REASONABLE_BLOCK
         THEN blockNumber \div 10
         ELSE currentHeight
    ELSE blockNumber

(***************************************************************************)
(* fetchUsdcTransactions: what the tokentx endpoint answers for the wallet *)
(* (transfers to or from it, matched case-insensitively), filtered by the  *)
(* code to the incoming ones.                                              *)
(***************************************************************************)
TokenTx(walletAddress, fromBlock, endBlock) ==
    {t \in upstream :
        /\ \/ ToLowerCase(t.to) = ToLowerCase(walletAddress)
           \/ ToLowerCase(t.from) = ToLowerCase(walletAddress)
        /\ \/ apiOutOfRange
           \/ t.blockNumber >= fromBlock /\ t.blockNumber <= endBlock}

fetchUsdcTransactions(walletAddress, fromBlock, endBlock) ==
    {t \in TokenTx(walletAddress, fromBlock, endBlock) :
        ToLowerCase(t.to) = ToLowerCase(walletAddress)}

(***************************************************************************)
(* The pure part of processProviderTransactions (lines 245-326): from the  *)
(* validated watermark, the fetched list and the safe height to the        *)
(* returned decision.  fetched = FALSE is the early return of line 248.    *)
(***************************************************************************)
\* variant: the scan restarts at the watermark itself
FromBlock_Inclusive(lastBlock) == lastBlock

FromBlock(lastBlock) == lastBlock + 1

\* variant: the block at the safe height itself is skipped
InScanRange_StrictUpper(tx, fromBlock, safeHeight) ==
    ~(tx.blockNumber >= safeHeight) /\ ~(tx.blockNumber < fromBlock)

InScanRange(tx, fromBlock, safeHeight) ==
    ~(tx.blockNumber > safeHeight) /\ ~(tx.blockNumber < fromBlock)

InAllowList(tx, tbaLookup) == ToLowerCase(tx.from) \in tbaLookup

ValidTransaction(tx) ==
    [txHash |-> tx.hash, blockNumber |-> tx.blockNumber, timestamp |-> tx.timeStamp,
     fromAddress |-> tx.from, toAddress |-> tx.to, valueUsdc |-> tx.value]

RECURSIVE MaxBlockSeen(_, _, _)
MaxBlockSeen(sorted, fromBlock, safeHeight) ==
    IF sorted = <<>> THEN fromBlock - 1
    ELSE LET tx == sorted[Len(sorted)]
             before == MaxBlockSeen(SubSeq(sorted, 1, Len(sorted) - 1), fromBlock, safeHeight)
         IN IF InScanRange(tx, fromBlock, safeHeight) THEN Max(before, tx.blockNumber) ELSE before

RECURSIVE MapValid(_)
MapValid(s) == IF s = <<>> THEN <<>> ELSE <<ValidTransaction(s[1])>> \o MapValid(Tail(s))

\* variant: the allow-list alone decides, whatever the block
FilterValid_AllowListOnly(sorted, fromBlock, safeHeight, tbaLookup) ==
    MapValid(SelectSeq(sorted, LAMBDA tx : InAllowList(tx, tbaLookup)))

FilterValid(sorted, fromBlock, safeHeight, tbaLookup) ==
    MapValid(SelectSeq(sorted, LAMBDA tx :
        InScanRange(tx, fromBlock, safeHeight) /\ InAllowList(tx, tbaLookup)))

\* variant: the conservative step is not capped at the safe height
ConservativeAdvance_Uncapped(fromBlock, safeHeight) ==
    fromBlock + CONSERVATIVE_BLOCK_ADVANCE

ConservativeAdvance(fromBlock, safeHeight) ==
    Min(fromBlock + CONSERVATIVE_BLOCK_ADVANCE, safeHeight)

\* variant: a non-empty fetch advances the watermark to the safe height
AdvanceTo_ToSafeHeight(transactions, fromBlock, safeHeight) ==
    IF Len(transactions) = 0
    THEN ConservativeAdvance(fromBlock, safeHeight)
    ELSE safeHeight

AdvanceTo(transactions, fromBlock, safeHeight) ==
    IF Len(transactions) = 0
    THEN ConservativeAdvance(fromBlock, safeHeight)
    ELSE Min(MaxBlockSeen(transactions, fromBlock, safeHeight), safeHeight)

ChangeType(transactions) ==
    IF Len(transactions) = 0 THEN "conservative_advance" ELSE "normal_advance"

\* variant: the early return reports the safe height as reached
CaughtUpResult_Reached(storedBlock, lastBlock) ==
    [fetched |-> FALSE, storedBlock |-> storedBlock, fromBlock |-> FromBlock(lastBlock),
     transactions |-> <<>>, validTransactions |-> <<>>,
     lastProcessedBlock |-> lastBlock, reachedSafeHeight |-> TRUE]

CaughtUpResult(storedBlock, lastBlock) ==
    [fetched |-> FALSE, storedBlock |-> storedBlock, fromBlock |-> FromBlock(lastBlock),
     transactions |-> <<>>, validTransactions |-> <<>>,
     lastProcessedBlock |-> lastBlock, reachedSafeHeight |-> FALSE]

ReconcileResult(storedBlock, lastBlock, fetchedList, safeHeight, tbaLookup) ==
    LET fromBlock == FromBlock(lastBlock)
        transactions == SortByBlock(fetchedList)
        lastProcessedBlock == AdvanceTo(transactions, fromBlock, safeHeight)
    IN [fetched |-> TRUE, storedBlock |-> storedBlock, fromBlock |-> fromBlock,
        transactions |-> transactions,
        validTransactions |-> FilterValid(transactions, fromBlock, safeHeight, tbaLookup),
        lastProcessedBlock |-> lastProcessedBlock,
        reachedSafeHeight |-> lastProcessedBlock >= safeHeight]

NoResult == CaughtUpResult(0, 0)

(***************************************************************************)
(* updateLastProcessedBlock: the guard of line 364, the call of `require`  *)
(* at line 368 (a ReferenceError where the loader does not bind it), and   *)
(* the upsert, which the CHECK constraint can reject.                      *)
(***************************************************************************)
UpdateLastProcessedBlockThrows(block) ==
    \/ block > MAX_REASONABLE_BLOCK
    \/ ~requireDefined
    \/ ~reasonable_block_number(block)

\* variant: on conflict the row is replaced by the inserted VALUES
LastProcessedBlockUpsert_Replace(row, block) ==
    [NoRow EXCEPT !.present = TRUE,
                  !.last_processed_block = block,
                  !.processing_checkpoint = block]

\* variant: the upsert stores the block after the one it was given
LastProcessedBlockUpsert_NextBlock(row, block) ==
    IF row.present
    THEN [row EXCEPT !.last_processed_block = block + 1,
                     !.processing_checkpoint = Max(row.processing_checkpoint, block - CHECKPOINT_LAG)]
    ELSE [NoRow EXCEPT !.present = TRUE,
                       !.last_processed_block = block + 1,
                       !.processing_checkpoint = block]

LastProcessedBlockUpsert(row, block) ==
    IF row.present
    THEN [row EXCEPT !.last_processed_block = block,
                     !.processing_checkpoint = Max(row.processing_checkpoint, block - CHECKPOINT_LAG)]
    ELSE [NoRow EXCEPT !.present = TRUE,
                       !.last_processed_block = block,
                       !.processing_checkpoint = block]

\* the registration of the global-watermark version (part_000, lines 350-360):
\* INSERT ... VALUES (..., 0, 0, 0) ON CONFLICT (provider_entry_namehash) DO NOTHING
EnsureLeaderboardRow(row) == IF row.present THEN row ELSE [NoRow EXCEPT !.present = TRUE]

(***************************************************************************)
(* logBlockChange: the INSERT into block_processing_log; a rejection of    *)
(* the row by the table's CHECK constraint is caught and only printed.     *)
(***************************************************************************)
LogRow(p, oldBlock, newBlock, changeType) ==
    [provider |-> p, old_block_number |-> oldBlock, new_block_number |-> newBlock,
     change_type |-> changeType]

logBlockChange(log, p, oldBlock, newBlock, changeType) ==
    IF reasonable_block_change(oldBlock, newBlock, changeType)
    THEN log \cup {LogRow(p, oldBlock, newBlock, changeType)}
    ELSE log

(***************************************************************************)
(* updatePaymentRecords: INSERT ... ON CONFLICT (tx_hash) DO NOTHING for   *)
(* each transaction in order, in one database transaction.                 *)
(***************************************************************************)
LedgerRow(tx) ==
    [tx_hash |-> tx.txHash, block_number |-> tx.blockNumber, timestamp |-> tx.timestamp,
     from_address |-> tx.fromAddress, to_address |-> tx.toAddress, value_usdc |-> tx.valueUsdc]

\* variant: ON CONFLICT (tx_hash) DO UPDATE, the later row replaces the stored one
InsertOnConflictDoNothing_Overwrite(ledger, tx) ==
    {r \in ledger : r.tx_hash # tx.txHash} \cup {LedgerRow(tx)}

InsertOnConflictDoNothing(ledger, tx) ==
    IF \E r \in ledger : r.tx_hash = tx.txHash THEN ledger ELSE ledger \cup {LedgerRow(tx)}

RECURSIVE InsertAll(_, _)
InsertAll(ledger, validTransactions) ==
    IF validTransactions = <<>> THEN ledger
    ELSE InsertAll(InsertOnConflictDoNothing(ledger, validTransactions[1]), Tail(validTransactions))

\* insertTransactionBatch of the global-watermark version (part_000): one
\* multi-row INSERT ... ON CONFLICT (tx_hash) DO NOTHING
insertTransactionBatch(ledger, transactions) ==
    IF Len(transactions) = 0 THEN ledger ELSE InsertAll(ledger, transactions)

(***************************************************************************)
(* updateLeaderboardStatsIncremental: the values computed in lines 399-422 *)
(* and the upsert of lines 424-454.                                        *)
(***************************************************************************)
UniqueNewSenders(newTransactions) ==
    {ToLowerCase(newTransactions[i].fromAddress) : i \in 1..Len(newTransactions)}

ExistingCount(ledger, walletAddress, senders, beforeBlock) ==
    Cardinality({r.from_address : r \in
        {x \in ledger : /\ x.to_address = walletAddress
                        /\ x.from_address \in senders
                        /\ x.block_number < beforeBlock}})

NewUniqueSenderCount(currentStats, ledger, walletAddress, newTransactions) ==
    IF UniqueNewSenders(newTransactions) # {}
    THEN currentStats.unique_sender_count
           + (Cardinality(UniqueNewSenders(newTransactions))
              - ExistingCount(ledger, walletAddress, UniqueNewSenders(newTransactions),
                              newTransactions[1].blockNumber))
    ELSE currentStats.unique_sender_count

\* variant: the upsert leaves the stored watermark as it is
UpsertedBlock_Stale(row, lastProcessedBlock) == row.last_processed_block

\* the last_processed_block the upsert stores ($10, EXCLUDED.last_processed_block)
UpsertedBlock(row, lastProcessedBlock) == lastProcessedBlock

LeaderboardStatsUpsert(row, currentStats, ledger, walletAddress, newTransactions, lastProcessedBlock) ==
    LET newTotalUsdc == SumSeq(newTransactions)
        newTxCount == Len(newTransactions)
        newUnique == NewUniqueSenderCount(currentStats, ledger, walletAddress, newTransactions)
        firstTx == IF currentStats.first_transaction_at # NULL
                   THEN currentStats.first_transaction_at
                   ELSE IF newTxCount > 0 THEN newTransactions[1].timestamp ELSE NULL
        lastTx == IF newTxCount > 0
                  THEN newTransactions[newTxCount].timestamp
                  ELSE currentStats.last_transaction_at
    IN IF row.present
       THEN [row EXCEPT
               !.total_usdc_received = row.total_usdc_received + newTotalUsdc,
               !.transaction_count = row.transaction_count + newTxCount,
               !.unique_sender_count = newUnique,
               !.first_transaction_at = Coalesce(row.first_transaction_at, firstTx),
               !.last_transaction_at = Greatest(row.last_transaction_at, lastTx),
               !.last_processed_block = UpsertedBlock(row, lastProcessedBlock),
               !.last_transaction_block = lastProcessedBlock,
               !.processing_checkpoint =
                   Max(row.processing_checkpoint, lastProcessedBlock - CHECKPOINT_LAG)]
       ELSE [NoRow EXCEPT
               !.present = TRUE,
               !.total_usdc_received = newTotalUsdc,
               !.transaction_count = newTxCount,
               !.unique_sender_count = newUnique,
               !.first_transaction_at = firstTx,
               !.last_transaction_at = lastTx,
               !.last_processed_block = UpsertedBlock(row, lastProcessedBlock),
               !.last_transaction_block = lastProcessedBlock]

(***************************************************************************)
(* The branch of runPaymentTracker's loop body taken on a result (lines    *)
(* 506-518).                                                               *)
(***************************************************************************)
\* variant: the watermark is written whenever the batch is empty
ApplyBranch_AlwaysPersist(result) ==
    IF Len(result.validTransactions) > 0 THEN "records_and_stats"
    ELSE "watermark_only"

ApplyBranch(result) ==
    IF Len(result.validTransactions) > 0 THEN "records_and_stats"
    ELSE IF result.reachedSafeHeight THEN "watermark_only"
    ELSE "nothing"

(***************************************************************************)
(* Initial state: the explorer has indexed some of the transfers; the      *)
(* ledger is empty; a provider has no leaderboard row yet or (the first    *)
(* one) a row with a stored watermark, left by an earlier version or set   *)
(* by an operator.                                                         *)
(***************************************************************************)
Slots == 1..MaxInvocations

NotInFlight == [at |-> 0, phase |-> "idle"]

\* INSERT INTO tracker_state (id) VALUES (1): the column defaults
NoError == [kind |-> "null", text |-> ""]

InitialTrackerState ==
    [total_runs |-> 0, successful_runs |-> 0, failed_runs |-> 0, last_error |-> NoError]

NotInvoked ==
    [mode |-> "none", pc |-> "idle", invoked |-> 0, providers |-> <<>>, i |-> 1,
     entered |-> <<>>, reconciled |-> <<>>, failed |-> {},
     cause |-> NoError, error |-> NoError, recorded |-> FALSE,
     atStart |-> InitialTrackerState, exit |-> NULL]

\* the RateLimiter as constructed, its callers and the clock
Callers == {"run1", "run2"}

minInterval == 1000 \div maxCallsPerSecond

NotWaiting == [pc |-> "idle", wakeAt |-> 0, calls |-> 0]

NewRateLimiter ==
    [lastCallTime |-> 0,
     now |-> minInterval,
     callers |-> [c \in Callers |-> NotWaiting],
     completions |-> <<>>]

\* INSERT INTO global_state (id, last_processed_block) VALUES (1, 0)
InitialGlobalState == [last_processed_block |-> 0]

NotStarted ==
    [pc |-> "idle", run |-> 0, currentHeight |-> 0, lastProcessedBlock |-> 0, safeHeight |-> 0,
     i |-> 1, transactionBatch |-> <<>>, fetchFailed |-> {}]

NoCall == [fn |-> "none", args |-> <<>>, done |-> FALSE, returned |-> NULL]

StoredRow(w) == [NoRow EXCEPT !.present = TRUE, !.last_processed_block = w]

NoBase == [ledger |-> {}, row |-> NoRow]

NoRun ==
    [finished |-> FALSE, safeBlockHeight |-> 0,
     startRows |-> [p \in ProviderSet |-> NoRow],
     endRows |-> [p \in ProviderSet |-> NoRow],
     status |-> [p \in ProviderSet |-> "none"]]

Init ==
    /\ upstream \in {S \in SUBSET Transfers : Cardinality(S) <= MaxUpstream}
    /\ apiOutOfRange \in BOOLEAN
    /\ requireDefined \in BOOLEAN
    /\ invocations = [s \in Slots |-> NotInFlight]
    /\ call = NoCall
    /\ tracker_state = InitialTrackerState
    /\ job = NotInvoked
    /\ global_state = InitialGlobalState
    /\ globalRun = NotStarted
    /\ rateLimiter = NewRateLimiter
    /\ hypermap_transactions = {}
    /\ provider_leaderboard \in [ProviderSet -> {NoRow} \cup {StoredRow(w) : w \in InitWatermarks}]
    /\ \A i \in 2..Len(Providers) : provider_leaderboard[Providers[i]] = NoRow
    /\ block_processing_log = {}
    /\ runs = 0
    /\ running = FALSE
    /\ safeBlockHeight = 0
    /\ idx = 1
    /\ status = [p \in ProviderSet |-> "none"]
    /\ pending = [p \in ProviderSet |-> NoResult]
    /\ base = [p \in ProviderSet |-> NoBase]
    /\ runStart = provider_leaderboard
    /\ prevRun = NoRun

(***************************************************************************)
(* runPaymentTracker up to the provider loop: the chain height and the     *)
(* safe height derived from it.                                            *)
(***************************************************************************)
SafeHeight(currentBlockHeight) == currentBlockHeight - BLOCK_SAFETY_BUFFER

BeginRun(currentBlockHeight) ==
    /\ running' = TRUE
    /\ safeBlockHeight' = SafeHeight(currentBlockHeight)
    /\ idx' = 1
    /\ status' = [p \in ProviderSet |-> "pending"]
    /\ pending' = [p \in ProviderSet |-> NoResult]
    /\ base' = [p \in ProviderSet |-> NoBase]
    /\ runStart' = provider_leaderboard
    /\ prevRun' = IF runs = 0 THEN NoRun
                  ELSE [finished |-> TRUE, safeBlockHeight |-> safeBlockHeight,
                        startRows |-> runStart,
                        endRows |-> provider_leaderboard, status |-> status]
    /\ UNCHANGED <<envVars, dbVars>>

StartRun ==
    /\ ~running
    /\ runs < MaxRuns
    /\ \E h \in Heights : BeginRun(h)
    /\ runs' = runs

(***************************************************************************)
(* processProviderTransactions, with every write it makes: the repair of   *)
(* the stored watermark, the audit rows, and the returned decision.        *)
(***************************************************************************)
processProviderTransactions(p) ==
    /\ running
    /\ idx <= Len(Providers)
    /\ Providers[idx] = p
    /\ status[p] = "pending"
    /\ \E upsertOk, fetchOk \in BOOLEAN :
        LET currentStats == getProviderCurrentStats(p)
            storedBlock == currentStats.last_processed_block
            validatedLastBlock == validateAndFixBlockNumber(storedBlock, safeBlockHeight)
            needsFix == validatedLastBlock # storedBlock
            fixThrows == needsFix /\ (UpdateLastProcessedBlockThrows(validatedLastBlock) \/ ~upsertOk)
            rowsFixed == IF needsFix
                         THEN [provider_leaderboard EXCEPT
                                 ![p] = LastProcessedBlockUpsert(@, validatedLastBlock)]
                         ELSE provider_leaderboard
            logFixed == IF needsFix
                        THEN logBlockChange(block_processing_log, p, storedBlock,
                                            validatedLastBlock, "corruption_fix")
                        ELSE block_processing_log
            fromBlock == FromBlock(validatedLastBlock)
        IN IF fixThrows
           THEN /\ status' = [status EXCEPT ![p] = "failed_process"]
                /\ idx' = idx + 1
                /\ UNCHANGED <<dbVars, pending, base>>
           ELSE IF fromBlock > safeBlockHeight
           THEN /\ provider_leaderboard' = rowsFixed
                /\ block_processing_log' = logFixed
                /\ pending' = [pending EXCEPT ![p] = CaughtUpResult(storedBlock, validatedLastBlock)]
                /\ base' = [base EXCEPT ![p] = [ledger |-> hypermap_transactions, row |-> rowsFixed[p]]]
                /\ status' = [status EXCEPT ![p] = "reconciled"]
                /\ UNCHANGED <<hypermap_transactions, idx>>
           ELSE IF ~fetchOk
           THEN /\ provider_leaderboard' = rowsFixed
                /\ block_processing_log' = logFixed
                /\ status' = [status EXCEPT ![p] = "failed_process"]
                /\ idx' = idx + 1
                /\ UNCHANGED <<hypermap_transactions, pending, base>>
           ELSE \E fetchedList \in Orderings(fetchUsdcTransactions(wallet_address(p), fromBlock, safeBlockHeight)) :
                LET result == ReconcileResult(storedBlock, validatedLastBlock, fetchedList,
                                              safeBlockHeight, buildTbaLookup)
                IN /\ provider_leaderboard' = rowsFixed
                   /\ block_processing_log' =
                        logBlockChange(logFixed, p, validatedLastBlock, result.lastProcessedBlock,
                                       ChangeType(result.transactions))
                   /\ pending' = [pending EXCEPT ![p] = result]
                   /\ base' = [base EXCEPT ![p] = [ledger |-> hypermap_transactions, row |-> rowsFixed[p]]]
                   /\ status' = [status EXCEPT ![p] = "reconciled"]
                   /\ UNCHANGED <<hypermap_transactions, idx>>
    /\ UNCHANGED <<envVars, runs, running, safeBlockHeight, runStart, prevRun>>

(***************************************************************************)
(* updatePaymentRecords: one database transaction; it commits every insert *)
(* or, when a statement fails, rolls back and rethrows.  It writes         *)
(* hypermap_transactions only: the provider's leaderboard row is as it was.*)
(***************************************************************************)
\* variant: the ledger transaction also stores the batch's watermark
RowAfterRecords_Advanced(row, lastProcessedBlock) ==
    LastProcessedBlockUpsert(row, lastProcessedBlock)

RowAfterRecords(row, lastProcessedBlock) == row

updatePaymentRecords(p) ==
    /\ running
    /\ status[p] = "reconciled"
    /\ ApplyBranch(pending[p]) = "records_and_stats"
    /\ \E commit \in BOOLEAN :
        IF commit
        THEN /\ hypermap_transactions' = InsertAll(hypermap_transactions, pending[p].validTransactions)
             /\ provider_leaderboard' =
                  [provider_leaderboard EXCEPT ![p] =
                      RowAfterRecords(@, pending[p].lastProcessedBlock)]
             /\ status' = [status EXCEPT ![p] = "recorded"]
             /\ idx' = idx
        ELSE /\ hypermap_transactions' = hypermap_transactions
             /\ provider_leaderboard' = provider_leaderboard
             /\ status' = [status EXCEPT ![p] = "failed_records"]
             /\ idx' = idx + 1
    /\ UNCHANGED <<envVars, block_processing_log,
                   runs, running, safeBlockHeight, pending, base, runStart, prevRun>>

(***************************************************************************)
(* updateLeaderboardStatsIncremental: a second database transaction, with  *)
(* the stats and the watermark in one upsert.                              *)
(***************************************************************************)
updateLeaderboardStatsIncremental(p) ==
    /\ running
    /\ status[p] = "recorded"
    /\ \E commit \in BOOLEAN :
        IF commit /\ reasonable_block_number(pending[p].lastProcessedBlock)
        THEN /\ provider_leaderboard' =
                  [provider_leaderboard EXCEPT ![p] =
                      LeaderboardStatsUpsert(@, getProviderCurrentStats(p), hypermap_transactions,
                                             wallet_address(p), pending[p].validTransactions,
                                             pending[p].lastProcessedBlock)]
             /\ status' = [status EXCEPT ![p] = "applied"]
        ELSE /\ provider_leaderboard' = provider_leaderboard
             /\ status' = [status EXCEPT ![p] = "failed_stats"]
    /\ idx' = idx + 1
    /\ UNCHANGED <<envVars, hypermap_transactions, block_processing_log,
                   runs, running, safeBlockHeight, pending, base, runStart, prevRun>>

(***************************************************************************)
(* updateLastProcessedBlock as called from the loop (line 513).            *)
(***************************************************************************)
updateLastProcessedBlock(p) ==
    /\ running
    /\ status[p] = "reconciled"
    /\ ApplyBranch(pending[p]) = "watermark_only"
    /\ \E upsertOk \in BOOLEAN :
        IF upsertOk /\ ~UpdateLastProcessedBlockThrows(pending[p].lastProcessedBlock)
        THEN /\ provider_leaderboard' =
                  [provider_leaderboard EXCEPT ![p] =
                      LastProcessedBlockUpsert(@, pending[p].lastProcessedBlock)]
             /\ status' = [status EXCEPT ![p] = "applied"]
        ELSE /\ provider_leaderboard' = provider_leaderboard
             /\ status' = [status EXCEPT ![p] = "failed_watermark"]
    /\ idx' = idx + 1
    /\ UNCHANGED <<envVars, hypermap_transactions, block_processing_log,
                   runs, running, safeBlockHeight, pending, base, runStart, prevRun>>

(***************************************************************************)
(* The else branch of line 516: nothing is written.                        *)
(***************************************************************************)
alreadyUpToDate(p) ==
    /\ running
    /\ status[p] = "reconciled"
    /\ ApplyBranch(pending[p]) = "nothing"
    /\ status' = [status EXCEPT ![p] = "uptodate"]
    /\ idx' = idx + 1
    /\ UNCHANGED <<envVars, dbVars, runs, running, safeBlockHeight, pending, base, runStart, prevRun>>

(***************************************************************************)
(* The end of the provider loop.                                           *)
(***************************************************************************)
FinishRun ==
    /\ running
    /\ idx > Len(Providers)
    /\ running' = FALSE
    /\ UNCHANGED <<envVars, dbVars, safeBlockHeight, idx, status, pending, base, runStart, prevRun>>

EndRun ==
    /\ FinishRun
    /\ runs' = runs + 1

Next ==
    \/ StartRun
    \/ \E p \in ProviderSet : processProviderTransactions(p)
    \/ \E p \in ProviderSet : updatePaymentRecords(p)
    \/ \E p \in ProviderSet : updateLeaderboardStatsIncremental(p)
    \/ \E p \in ProviderSet : updateLastProcessedBlock(p)
    \/ \E p \in ProviderSet : alreadyUpToDate(p)
    \/ EndRun

Spec == Init /\ [][Next]_vars

(***************************************************************************)
(* The daemon: setInterval starts a run every POLL_INTERVAL_MS, for ever,  *)
(* and every step of a run that is started is taken.                       *)
(***************************************************************************)
StartRunAgain ==
    /\ ~running
    /\ \E h \in Heights : BeginRun(h)
    /\ runs' = runs

EndRunAgain ==
    /\ FinishRun
    /\ runs' = IF runs < MaxRuns THEN runs + 1 ELSE runs

NextDaemon ==
    \/ StartRunAgain
    \/ \E p \in ProviderSet : processProviderTransactions(p)
    \/ \E p \in ProviderSet : updatePaymentRecords(p)
    \/ \E p \in ProviderSet : updateLeaderboardStatsIncremental(p)
    \/ \E p \in ProviderSet : updateLastProcessedBlock(p)
    \/ \E p \in ProviderSet : alreadyUpToDate(p)
    \/ EndRunAgain

DaemonSpec == Init /\ [][NextDaemon]_vars /\ WF_vars(NextDaemon)

(***************************************************************************)
(* The daemon's scheduling as the event loop sees it (lines 572-580): the  *)
(* first call of runPaymentTracker and every callback of setInterval start *)
(* a run whether or not an earlier one has returned; nothing in the module *)
(* records that a run is in flight.  Each run in flight is followed        *)
(* through the awaits of its provider loop (lines 493-531): the call of    *)
(* processProviderTransactions, the apply branch, the one-second pause.    *)
(* OverlapSpec follows the positions only; what the steps write is in Spec.*)
(***************************************************************************)
InFlight(s) == invocations[s].phase # "idle"

Processing(s, p) ==
    /\ invocations[s].phase \in {"reconcile", "apply"}
    /\ Providers[invocations[s].at] = p

NextProvider(inv) ==
    IF inv.at < Len(Providers)
    THEN [at |-> inv.at + 1, phase |-> "reconcile"]
    ELSE NotInFlight

\* runPaymentTracker().catch(...) at line 576 or in the callback of line 578
invokeRunPaymentTracker(s) ==
    /\ ~InFlight(s)
    /\ \A t \in Slots : t < s => InFlight(t)
    /\ invocations' = [invocations EXCEPT ![s] = [at |-> 1, phase |-> "reconcile"]]
    /\ UNCHANGED <<upstream, apiOutOfRange, requireDefined, global_state, globalRun, rateLimiter, call, tracker_state, job, dbVars, runVars>>

\* await processProviderTransactions(...) resolves (line 499)
reconcileReturns(s) ==
    /\ invocations[s].phase = "reconcile"
    /\ invocations' = [invocations EXCEPT ![s].phase = "apply"]
    /\ UNCHANGED <<upstream, apiOutOfRange, requireDefined, global_state, globalRun, rateLimiter, call, tracker_state, job, dbVars, runVars>>

\* the apply branch of lines 506-518 returns
applyReturns(s) ==
    /\ invocations[s].phase = "apply"
    /\ invocations' = [invocations EXCEPT ![s].phase = "pause"]
    /\ UNCHANGED <<upstream, apiOutOfRange, requireDefined, global_state, globalRun, rateLimiter, call, tracker_state, job, dbVars, runVars>>

\* a call of the iteration throws: the catch of line 522, then the next provider
iterationThrows(s) ==
    /\ invocations[s].phase \in {"reconcile", "apply"}
    /\ invocations' = [invocations EXCEPT ![s] = NextProvider(@)]
    /\ UNCHANGED <<upstream, apiOutOfRange, requireDefined, global_state, globalRun, rateLimiter, call, tracker_state, job, dbVars, runVars>>

\* the pause of line 520 elapses
pauseElapses(s) ==
    /\ invocations[s].phase = "pause"
    /\ invocations' = [invocations EXCEPT ![s] = NextProvider(@)]
    /\ UNCHANGED <<upstream, apiOutOfRange, requireDefined, global_state, globalRun, rateLimiter, call, tracker_state, job, dbVars, runVars>>

NextOverlap ==
    \/ \E s \in Slots : invokeRunPaymentTracker(s)
    \/ \E s \in Slots : reconcileReturns(s)
    \/ \E s \in Slots : applyReturns(s)
    \/ \E s \in Slots : iterationThrows(s)
    \/ \E s \in Slots : pauseElapses(s)

OverlapSpec == Init /\ [][NextOverlap]_vars

(***************************************************************************)
(* validateAndFixBlockNumber on its own: one call with a stored watermark  *)
(* and an observed height drawn from the values around its two thresholds, *)
(* next to a ledger that holds a transaction of the provider or none.      *)
(***************************************************************************)
StoredWatermarks ==
    {0, 120, 1090, 1091, 1300, 99999999, 100000000, 100000001, 315228551, 1000000000}

ObservedHeights == {90, 250, 31522845, 99999000}

RecordedLedgers ==
    {{}, {LedgerRow(ValidTransaction(Transfer("h1", 10, "0xa1", "0xw1", 5)))}}

\* a process that has not started a run: every variable but the ledger and the call
NothingRunning ==
    /\ upstream = {}
    /\ apiOutOfRange = FALSE
    /\ requireDefined = TRUE
    /\ invocations = [s \in Slots |-> NotInFlight]
    /\ tracker_state = InitialTrackerState
    /\ job = NotInvoked
    /\ global_state = InitialGlobalState
    /\ globalRun = NotStarted
    /\ rateLimiter = NewRateLimiter
    /\ provider_leaderboard = [p \in ProviderSet |-> NoRow]
    /\ block_processing_log = {}
    /\ runs = 0
    /\ running = FALSE
    /\ safeBlockHeight = 0
    /\ idx = 1
    /\ status = [p \in ProviderSet |-> "none"]
    /\ pending = [p \in ProviderSet |-> NoResult]
    /\ base = [p \in ProviderSet |-> NoBase]
    /\ runStart = provider_leaderboard
    /\ prevRun = NoRun

InitRepair ==
    /\ NothingRunning
    /\ hypermap_transactions \in RecordedLedgers
    /\ \E blockNumber \in StoredWatermarks, currentHeight \in ObservedHeights :
        call = [fn |-> "validateAndFixBlockNumber", args |-> <<blockNumber, currentHeight>>,
                done |-> FALSE, returned |-> NULL]

callValidateAndFixBlockNumber ==
    /\ call.fn = "validateAndFixBlockNumber"
    /\ ~call.done
    /\ call' = [call EXCEPT !.done = TRUE,
                            !.returned = validateAndFixBlockNumber(call.args[1], call.args[2])]
    /\ UNCHANGED <<upstream, apiOutOfRange, requireDefined, global_state, globalRun, rateLimiter, invocations, tracker_state, job,
                   dbVars, runVars>>

NextRepair == callValidateAndFixBlockNumber

RepairSpec == InitRepair /\ [][NextRepair]_vars

(***************************************************************************)
(* The two functions that write last_processed_block, each called once     *)
(* with a block number drawn from both sides of the bounds of the column,  *)
(* on a provider with or without a stored row.                             *)
(***************************************************************************)
BlockNumbersToPersist ==
    {0 - 100, 0 - 5, 0, 120, 99999999, 100000000, 100000001, 315228551}

WriteFunctions == {"updateLastProcessedBlock", "updateLeaderboardStatsIncremental"}

NewTransactionsToPersist == <<ValidTransaction(Transfer("h1", 10, "0xa1", "0xw1", 5))>>

\* the registration of a provider by the global-watermark version (part_000)
RegistrationFunctions == {"ensureLeaderboardRow"}

\* a row whose aggregates hold the one recorded transaction
RecordedRow(w) ==
    LET tx == NewTransactionsToPersist[1]
    IN [StoredRow(w) EXCEPT !.total_usdc_received = tx.valueUsdc,
                            !.transaction_count = 1,
                            !.unique_sender_count = 1,
                            !.first_transaction_at = tx.timestamp,
                            !.last_transaction_at = tx.timestamp,
                            !.last_transaction_block = tx.blockNumber]

InitWrite ==
    /\ upstream = {}
    /\ apiOutOfRange = FALSE
    /\ requireDefined \in BOOLEAN
    /\ invocations = [s \in Slots |-> NotInFlight]
    /\ tracker_state = InitialTrackerState
    /\ job = NotInvoked
    /\ global_state = InitialGlobalState
    /\ globalRun = NotStarted
    /\ rateLimiter = NewRateLimiter
    /\ hypermap_transactions \in {{}, {LedgerRow(NewTransactionsToPersist[1])}}
    /\ provider_leaderboard \in [ProviderSet -> {NoRow} \cup {StoredRow(w) : w \in InitWatermarks}
                                                     \cup {RecordedRow(w) : w \in InitWatermarks}]
    /\ \A i \in 2..Len(Providers) : provider_leaderboard[Providers[i]] = NoRow
    /\ provider_leaderboard["p1"].transaction_count > 0 => hypermap_transactions # {}
    /\ block_processing_log = {}
    /\ runs = 0
    /\ running = FALSE
    /\ safeBlockHeight = 0
    /\ idx = 1
    /\ status = [p \in ProviderSet |-> "none"]
    /\ pending = [p \in ProviderSet |-> NoResult]
    /\ base = [p \in ProviderSet |-> NoBase]
    /\ runStart = provider_leaderboard
    /\ prevRun = NoRun
    /\ \/ \E fn \in WriteFunctions, lastProcessedBlock \in BlockNumbersToPersist :
            call = [fn |-> fn, args |-> <<lastProcessedBlock>>, done |-> FALSE, returned |-> NULL]
       \/ \E fn \in RegistrationFunctions :
            call = [fn |-> fn, args |-> <<>>, done |-> FALSE, returned |-> NULL]

callUpdateLastProcessedBlock(p) ==
    /\ call.fn = "updateLastProcessedBlock"
    /\ ~call.done
    /\ \E upsertOk \in BOOLEAN :
        IF upsertOk /\ ~UpdateLastProcessedBlockThrows(call.args[1])
        THEN /\ provider_leaderboard' =
                  [provider_leaderboard EXCEPT ![p] = LastProcessedBlockUpsert(@, call.args[1])]
             /\ call' = [call EXCEPT !.done = TRUE, !.returned = "resolved"]
        ELSE /\ provider_leaderboard' = provider_leaderboard
             /\ call' = [call EXCEPT !.done = TRUE, !.returned = "rejected"]
    /\ UNCHANGED <<upstream, apiOutOfRange, requireDefined, global_state, globalRun, rateLimiter, invocations, tracker_state, job,
                   hypermap_transactions, block_processing_log, runVars>>

callUpdateLeaderboardStatsIncremental(p) ==
    /\ call.fn = "updateLeaderboardStatsIncremental"
    /\ ~call.done
    /\ \E commit \in BOOLEAN :
        IF commit /\ reasonable_block_number(call.args[1])
        THEN /\ provider_leaderboard' =
                  [provider_leaderboard EXCEPT ![p] =
                      LeaderboardStatsUpsert(@, getProviderCurrentStats(p), hypermap_transactions,
                                             wallet_address(p), NewTransactionsToPersist,
                                             call.args[1])]
             /\ call' = [call EXCEPT !.done = TRUE, !.returned = "resolved"]
        ELSE /\ provider_leaderboard' = provider_leaderboard
             /\ call' = [call EXCEPT !.done = TRUE, !.returned = "rejected"]
    /\ UNCHANGED <<upstream, apiOutOfRange, requireDefined, global_state, globalRun, rateLimiter, invocations, tracker_state, job,
                   hypermap_transactions, block_processing_log, runVars>>

\* part_000, lines 350-360: INSERT ... ON CONFLICT (provider_entry_namehash) DO NOTHING
callEnsureLeaderboardRow(p) ==
    /\ call.fn = "ensureLeaderboardRow"
    /\ ~call.done
    /\ \E inserted \in BOOLEAN :
        IF inserted
        THEN /\ provider_leaderboard' = [provider_leaderboard EXCEPT ![p] = EnsureLeaderboardRow(@)]
             /\ call' = [call EXCEPT !.done = TRUE, !.returned = "resolved"]
        ELSE /\ provider_leaderboard' = provider_leaderboard
             /\ call' = [call EXCEPT !.done = TRUE, !.returned = "rejected"]
    /\ UNCHANGED <<upstream, apiOutOfRange, requireDefined, global_state, globalRun, rateLimiter, invocations, tracker_state, job,
                   hypermap_transactions, block_processing_log, runVars>>

NextWrite ==
    \/ callUpdateLastProcessedBlock("p1")
    \/ callUpdateLeaderboardStatsIncremental("p1")
    \/ callEnsureLeaderboardRow("p1")

WriteSpec == InitWrite /\ [][NextWrite]_vars

(***************************************************************************)
(* The decision of processProviderTransactions on its own (lines 245-326): *)
(* one call with a validated watermark, a safe height and a list as the    *)
(* explorer may answer it, in any order and with blocks on either side of  *)
(* the scanned range.                                                      *)
(***************************************************************************)
FetchableTransfers == {t \in Transfers : ToLowerCase(t.to) = ToLowerCase(wallet_address("p1"))}

FetchedLists ==
    UNION {Orderings(S) : S \in {T \in SUBSET FetchableTransfers : Cardinality(T) <= MaxFetched}}

ValidatedWatermarks == {0, 20, 89, 120}

SafeHeights == {60, 90, 100}

InitDecision ==
    /\ NothingRunning
    /\ hypermap_transactions = {}
    /\ \E lastBlock \in ValidatedWatermarks, fetchedList \in FetchedLists, safeHeight \in SafeHeights :
        call = [fn |-> "processProviderTransactions",
                args |-> <<lastBlock, fetchedList, safeHeight>>,
                done |-> FALSE, returned |-> NULL]

callProcessProviderTransactions ==
    /\ call.fn = "processProviderTransactions"
    /\ ~call.done
    /\ LET lastBlock == call.args[1]
           fetchedList == call.args[2]
           safeHeight == call.args[3]
       IN call' = [call EXCEPT
                     !.done = TRUE,
                     !.returned = IF FromBlock(lastBlock) > safeHeight
                                  THEN CaughtUpResult(lastBlock, lastBlock)
                                  ELSE ReconcileResult(lastBlock, lastBlock, fetchedList,
                                                       safeHeight, buildTbaLookup)]
    /\ UNCHANGED <<upstream, apiOutOfRange, requireDefined, global_state, globalRun, rateLimiter, invocations, tracker_state, job,
                   dbVars, runVars>>

NextDecision == callProcessProviderTransactions

DecisionSpec == InitDecision /\ [][NextDecision]_vars

(***************************************************************************)
(* runPaymentTracker as a whole (lines 465-562) and its three callers      *)
(* (lines 564-588): the counters of tracker_state, discovery, the chain    *)
(* height, the provider loop with its catch, the final update, the outer   *)
(* catch and the exit status.  Every query and every upstream call either  *)
(* returns or throws.  In the loop the statement of line 497 reads         *)
(* currentStats, a name that runPaymentTracker and the module never        *)
(* declare: evaluating it throws a ReferenceError, and control goes to the *)
(* catch of line 522 before line 499 is reached.                           *)
(***************************************************************************)
Modes == {"test", "daemon", "oneshot"}

DiscoverableLists == {SubSeq(Providers, 1, n) : n \in 0..Len(Providers)}

RunError(text) == [kind |-> "run", text |-> text]

ProviderError(p) == [kind |-> "provider", text |-> p]

QueryFailed == RunError("query failed")

\* the outer catch (lines 545-556) is entered with this error
ToCatch(j, error) == [j EXCEPT !.pc = "catch", !.cause = error, !.error = error]

\* variant: the failure is counted but its text is not stored
RecordFailure_NoText(ts, error) == [ts EXCEPT !.failed_runs = @ + 1]

\* UPDATE tracker_state SET failed_runs = failed_runs + 1, last_error = $1
RecordFailure(ts, error) == [ts EXCEPT !.failed_runs = @ + 1, !.last_error = error]

\* a caller invokes runPaymentTracker; lines 470-474
invoke(mode) ==
    /\ job.pc = "idle"
    /\ job.mode \in {"none", mode}
    /\ job.invoked < MaxTrackerRuns
    /\ \E ok \in BOOLEAN :
        LET fresh == [NotInvoked EXCEPT !.mode = mode, !.invoked = job.invoked + 1,
                                        !.atStart = tracker_state]
        IN IF ok
           THEN /\ tracker_state' = [tracker_state EXCEPT !.total_runs = @ + 1]
                /\ job' = [fresh EXCEPT !.pc = "started"]
           ELSE /\ tracker_state' = tracker_state
                /\ job' = ToCatch(fresh, QueryFailed)
    /\ UNCHANGED <<upstream, apiOutOfRange, requireDefined, global_state, globalRun, rateLimiter, invocations, call, dbVars, runVars>>

\* lines 476 and 22-46
findGridBetaHyprNamehash ==
    /\ job.pc = "started"
    /\ \E outcome \in {"found", "hypr namespace not found",
                        "grid-beta.hypr namespace not found", "query failed"} :
        job' = IF outcome = "found"
               THEN [job EXCEPT !.pc = "discovered"]
               ELSE ToCatch(job, RunError(outcome))
    /\ UNCHANGED <<upstream, apiOutOfRange, requireDefined, global_state, globalRun, rateLimiter, invocations, call,
                   tracker_state, dbVars, runVars>>

\* line 479
fetchProviderEntries ==
    /\ job.pc = "discovered"
    /\ \/ \E providers \in DiscoverableLists :
            job' = [job EXCEPT !.pc = "listed", !.providers = providers]
       \/ job' = ToCatch(job, QueryFailed)
    /\ UNCHANGED <<upstream, apiOutOfRange, requireDefined, global_state, globalRun, rateLimiter, invocations, call,
                   tracker_state, dbVars, runVars>>

\* lines 482-486: the allow-list, then the chain height
readLookupAndHeight ==
    /\ job.pc = "listed"
    /\ \E outcome \in {"ok", "query failed", "height unavailable"} :
        job' = IF outcome = "ok"
               THEN [job EXCEPT !.pc = "loop", !.i = 1]
               ELSE ToCatch(job, RunError(outcome))
    /\ UNCHANGED <<upstream, apiOutOfRange, requireDefined, global_state, globalRun, rateLimiter, invocations, call,
                   tracker_state, dbVars, runVars>>

\* one iteration of lines 493-531: line 497 throws, the catch stores the error
providerIteration(p) ==
    /\ job.pc = "loop"
    /\ job.i <= Len(job.providers)
    /\ job.providers[job.i] = p
    /\ \E ok \in BOOLEAN :
        LET failedHere == [job EXCEPT !.entered = Append(@, p), !.failed = @ \cup {p}]
        IN IF ok
           THEN /\ tracker_state' = [tracker_state EXCEPT !.last_error = ProviderError(p)]
                /\ job' = [failedHere EXCEPT !.i = @ + 1]
           ELSE /\ tracker_state' = tracker_state
                /\ job' = ToCatch(failedHere, QueryFailed)
    /\ UNCHANGED <<upstream, apiOutOfRange, requireDefined, global_state, globalRun, rateLimiter, invocations, call, dbVars, runVars>>

\* lines 533-543: after the loop
markRunSuccessful ==
    /\ job.pc = "loop"
    /\ job.i > Len(job.providers)
    /\ \E ok \in BOOLEAN :
        IF ok
        THEN /\ tracker_state' = [tracker_state EXCEPT !.successful_runs = @ + 1,
                                                       !.last_error = NoError]
             /\ job' = [job EXCEPT !.pc = "returned"]
        ELSE /\ tracker_state' = tracker_state
             /\ job' = ToCatch(job, QueryFailed)
    /\ UNCHANGED <<upstream, apiOutOfRange, requireDefined, global_state, globalRun, rateLimiter, invocations, call, dbVars, runVars>>

\* lines 545-561: the outer catch, its update, the rethrow
catchAndRethrow ==
    /\ job.pc = "catch"
    /\ \E ok \in BOOLEAN :
        IF ok
        THEN /\ tracker_state' = RecordFailure(tracker_state, job.error)
             /\ job' = [job EXCEPT !.pc = "threw", !.recorded = TRUE]
        ELSE /\ tracker_state' = tracker_state
             /\ job' = [job EXCEPT !.pc = "threw", !.error = QueryFailed]
    /\ UNCHANGED <<upstream, apiOutOfRange, requireDefined, global_state, globalRun, rateLimiter, invocations, call, dbVars, runVars>>

\* lines 564-588: what the caller does with the settled promise
settle ==
    /\ job.pc \in {"returned", "threw"}
    /\ job' = IF job.mode = "daemon"
              THEN [job EXCEPT !.pc = "idle"]
              ELSE [job EXCEPT !.pc = "exited",
                               !.exit = IF job.pc = "returned" THEN 0 ELSE 1]
    /\ UNCHANGED <<upstream, apiOutOfRange, requireDefined, global_state, globalRun, rateLimiter, invocations, call,
                   tracker_state, dbVars, runVars>>

NextRun ==
    \/ \E mode \in Modes : invoke(mode)
    \/ findGridBetaHyprNamehash
    \/ fetchProviderEntries
    \/ readLookupAndHeight
    \/ \E p \in ProviderSet : providerIteration(p)
    \/ markRunSuccessful
    \/ catchAndRethrow
    \/ settle

InitRun ==
    /\ NothingRunning
    /\ hypermap_transactions = {}
    /\ call = NoCall

RunSpec == InitRun /\ [][NextRun]_vars

(***************************************************************************)
(* The two explorer calls with their retry loops: fetchUsdcTransactions    *)
(* (lines 114-147) and getCurrentBlockHeight (lines 90-112, and in the     *)
(* global-watermark version through withRetry).  MAX_RETRIES is read from  *)
(* the environment, 3 by default; a call sees one response per attempt.    *)
(* A response is the parsed JSON body, or the failure of fetch / json().   *)
(***************************************************************************)
RetryConfigs == 0..MAX_RETRIES

Response(apiStatus, message, result) ==
    [received |-> TRUE, status |-> apiStatus, message |-> message, result |-> result,
     error |-> ""]

\* a JSON-RPC error object in place of a result
RpcError(text) ==
    [received |-> TRUE, status |-> "", message |-> "", result |-> "", error |-> text]

NoResponse ==
    [received |-> FALSE, status |-> "", message |-> "", result |-> "", error |-> ""]

TokenTxResponses ==
    { Response("1", "OK", "transfers"),
      Response("0", "No transactions found", "[]"),
      Response("0", "NOTOK", "No transactions found"),
      Response("0", "NOTOK", "Max rate limit reached"),
      Response("0", "NOTOK", "Error! Invalid address format"),
      NoResponse }

BlockNumberResponses ==
    { Response("", "", "0x1e0f3a5"),
      Response("0", "NOTOK", "Max rate limit reached"),
      Response("0", "NOTOK", "Error! Missing Or invalid Action name"),
      Response("0", "NOTOK", ""),
      Response("", "", ""),
      RpcError("rate limit"),
      NoResponse }

\* variant: only the message field is compared
IsNoTransactionsFound_MessageOnly(data) ==
    data.status = "0" /\ data.message = "No transactions found"

\* line 136
IsNoTransactionsFound(data) ==
    /\ data.status = "0"
    /\ \/ data.message = "No transactions found"
       \/ data.result = "No transactions found"

\* variant: the loop gives up one attempt early
IsLastAttempt_OneEarly(n, maxRetries) == n + 1 >= maxRetries

\* lines 108 and 143; part_000 line 136
IsLastAttempt(n, maxRetries) == n = maxRetries

(***************************************************************************)
(* parseInt(string, 16): an optional 0x prefix, then the longest run of    *)
(* hexadecimal digits; NaN when there is none.  A JavaScript number is the *)
(* pair of the NaN flag and the integer.                                   *)
(***************************************************************************)
JsNumber(n) == [nan |-> FALSE, n |-> n]
NaN == [nan |-> TRUE, n |-> 0]

HexDigits == <<"0", "1", "2", "3", "4", "5", "6", "7", "8", "9", "a", "b", "c", "d", "e", "f">>
UpperHexDigits == <<"0", "1", "2", "3", "4", "5", "6", "7", "8", "9", "A", "B", "C", "D", "E", "F">>

IsHexDigit(c) == \E k \in 1..Len(HexDigits) : HexDigits[k] = c \/ UpperHexDigits[k] = c

HexDigitValue(c) ==
    (CHOOSE k \in 1..Len(HexDigits) : HexDigits[k] = c \/ UpperHexDigits[k] = c) - 1

\* the characters of the result strings the responses carry
Chars(string) ==
    CASE string = "0x1e0f3a5" -> <<"0", "x", "1", "e", "0", "f", "3", "a", "5">>
      [] string = "Max rate limit reached" ->
            <<"M", "a", "x", " ", "r", "a", "t", "e", " ", "l", "i", "m", "i", "t", " ",
              "r", "e", "a", "c", "h", "e", "d">>
      [] string = "Error! Missing Or invalid Action name" ->
            <<"E", "r", "r", "o", "r", "!", " ", "M", "i", "s", "s", "i", "n", "g", " ",
              "O", "r", " ", "i", "n", "v", "a", "l", "i", "d", " ",
              "A", "c", "t", "i", "o", "n", " ", "n", "a", "m", "e">>
      [] OTHER -> <<>>

WithoutHexPrefix(chars) ==
    IF Len(chars) >= 2 /\ chars[1] = "0" /\ chars[2] \in {"x", "X"}
    THEN SubSeq(chars, 3, Len(chars))
    ELSE chars

RECURSIVE LeadingHexDigits(_)
LeadingHexDigits(chars) ==
    IF chars = <<>> \/ ~IsHexDigit(chars[1]) THEN <<>>
    ELSE <<chars[1]>> \o LeadingHexDigits(Tail(chars))

RECURSIVE HexValue(_)
HexValue(digits) ==
    IF digits = <<>> THEN 0
    ELSE 16 * HexValue(SubSeq(digits, 1, Len(digits) - 1)) + HexDigitValue(digits[Len(digits)])

ParseInt16(string) ==
    LET digits == LeadingHexDigits(WithoutHexPrefix(Chars(string)))
    IN IF digits = <<>> THEN NaN ELSE JsNumber(HexValue(digits))

\* the whole string is a hexadecimal quantity
IsHexQuantity(string) ==
    LET body == WithoutHexPrefix(Chars(string))
    IN body # <<>> /\ LeadingHexDigits(body) = body

Returned(value) ==
    [kind |-> "returned", value |-> value, number |-> NaN, error |-> NoResponse, attempt |-> 0]

\* return parseInt(data.result, 16)
ReturnedHeight(result) == [Returned(result) EXCEPT !.number = ParseInt16(result)]

Thrown(data, n) ==
    [kind |-> "thrown", value |-> "", number |-> NaN, error |-> data, attempt |-> n]

\* the body of the try block of fetchUsdcTransactions, lines 128-140
TokenTxOutcome(data, n) ==
    IF ~data.received THEN Thrown(data, n)
    ELSE IF data.status = "1" THEN Returned("transfers to the wallet")
    ELSE IF IsNoTransactionsFound(data) THEN Returned("[]")
    ELSE Thrown(data, n)

\* the body of the try block of getCurrentBlockHeight, lines 99-106
BlockNumberOutcome(data, n) ==
    IF ~data.received THEN Thrown(data, n)
    ELSE IF data.result # "" THEN ReturnedHeight(data.result)
    ELSE Thrown(data, n)

\* the operation part_000 passes to withRetry, lines 153-176
BlockNumberOutcomeGlobal(data, n) ==
    IF ~data.received THEN Thrown(data, n)
    ELSE IF data.error # "" THEN Thrown(data, n)
    ELSE ReturnedHeight(data.result)

RetryingFunctions ==
    {"fetchUsdcTransactions", "getCurrentBlockHeight", "withRetry(getCurrentBlockHeight)"}

InitRetry ==
    /\ NothingRunning
    /\ hypermap_transactions = {}
    /\ \E fn \in RetryingFunctions, maxRetries \in RetryConfigs :
        call = [fn |-> fn, args |-> <<maxRetries>>, done |-> FALSE,
                returned |-> Returned("undefined"), attempts |-> <<>>]

\* the loop condition attempt <= MAX_RETRIES holds for the next attempt
CanAttempt == ~call.done /\ Len(call.attempts) + 1 <= call.args[1]

\* one pass of the for loop: the try block, then the catch
AfterAttempt(data, outcome) ==
    LET settles == outcome.kind = "returned" \/ IsLastAttempt(Len(call.attempts) + 1, call.args[1])
    IN [call EXCEPT !.attempts = Append(@, data),
                    !.done = settles,
                    !.returned = IF settles THEN outcome ELSE @]

attemptFetchUsdcTransactions ==
    /\ call.fn = "fetchUsdcTransactions"
    /\ CanAttempt
    /\ \E data \in TokenTxResponses :
        call' = AfterAttempt(data, TokenTxOutcome(data, Len(call.attempts) + 1))
    /\ UNCHANGED <<upstream, apiOutOfRange, requireDefined, global_state, globalRun, rateLimiter, invocations, tracker_state, job,
                   dbVars, runVars>>

attemptGetCurrentBlockHeight ==
    /\ call.fn = "getCurrentBlockHeight"
    /\ CanAttempt
    /\ \E data \in BlockNumberResponses :
        call' = AfterAttempt(data, BlockNumberOutcome(data, Len(call.attempts) + 1))
    /\ UNCHANGED <<upstream, apiOutOfRange, requireDefined, global_state, globalRun, rateLimiter, invocations, tracker_state, job,
                   dbVars, runVars>>

attemptWithRetry ==
    /\ call.fn = "withRetry(getCurrentBlockHeight)"
    /\ CanAttempt
    /\ \E data \in BlockNumberResponses :
        call' = AfterAttempt(data, BlockNumberOutcomeGlobal(data, Len(call.attempts) + 1))
    /\ UNCHANGED <<upstream, apiOutOfRange, requireDefined, global_state, globalRun, rateLimiter, invocations, tracker_state, job,
                   dbVars, runVars>>

\* the loop condition attempt <= MAX_RETRIES fails: the function returns undefined
loopEnds ==
    /\ call.fn \in RetryingFunctions
    /\ ~call.done
    /\ ~CanAttempt
    /\ call' = [call EXCEPT !.done = TRUE, !.returned = Returned("undefined")]
    /\ UNCHANGED <<upstream, apiOutOfRange, requireDefined, global_state, globalRun, rateLimiter, invocations, tracker_state, job,
                   dbVars, runVars>>

NextRetry ==
    \/ attemptFetchUsdcTransactions
    \/ attemptGetCurrentBlockHeight
    \/ attemptWithRetry
    \/ loopEnds

RetrySpec == InitRetry /\ [][NextRetry]_vars

(***************************************************************************)
(* The global-watermark version of the tracker: runPaymentTracker reads    *)
(* the single row of global_state, fetches [lastProcessedBlock + 1,        *)
(* safeHeight] for every provider, and writes the ledger, global_state and *)
(* the leaderboard in one database transaction (BEGIN ... COMMIT, ROLLBACK *)
(* in the catch).  The flushes of the batch inside the loop are writes of  *)
(* the same transaction, so the batch is written here at the commit.       *)
(***************************************************************************)
GlobalValidTransaction(tx) ==
    [txHash |-> tx.hash, blockNumber |-> tx.blockNumber, timestamp |-> tx.timeStamp,
     fromAddress |-> ToLowerCase(tx.from), toAddress |-> ToLowerCase(tx.to),
     valueUsdc |-> tx.value]

\* the incoming transfers whose sender is in tbaMap, in the order received
ValidIncoming(transactions, walletAddress) ==
    LET Test(tx) == /\ ToLowerCase(tx.to) = ToLowerCase(walletAddress)
                    /\ InAllowList(tx, buildTbaLookup)
        kept == SelectSeq(transactions, Test)
    IN [k \in 1..Len(kept) |-> GlobalValidTransaction(kept[k])]

\* sort=asc: what the API returns is ordered by block
AscendingLists(S) == {s \in Orderings(S) : SortByBlock(s) = s}

\* the INSERT ... ON CONFLICT DO NOTHING of the provider (EnsureLeaderboardRow),
\* then the UPDATE of the leaderboard from the aggregates of the ledger
LeaderboardFromLedger(ledger, row, p) ==
    LET ensured == EnsureLeaderboardRow(row)
        stats == {r \in ledger : ToLowerCase(r.to_address) = ToLowerCase(wallet_address(p))}
        times == {r.timestamp : r \in stats}
    IN IF stats = {} THEN ensured
       ELSE [ensured EXCEPT
                !.total_usdc_received = SumRows(stats),
                !.transaction_count = Cardinality(stats),
                !.unique_sender_count = Cardinality({r.from_address : r \in stats}),
                !.first_transaction_at = CHOOSE t \in times : \A u \in times : t <= u,
                !.last_transaction_at = CHOOSE t \in times : \A u \in times : t >= u]

InitGlobal ==
    /\ upstream \in {S \in SUBSET Transfers : Cardinality(S) <= MaxUpstream}
    /\ apiOutOfRange = FALSE
    /\ requireDefined = TRUE
    /\ invocations = [s \in Slots |-> NotInFlight]
    /\ call = NoCall
    /\ tracker_state = InitialTrackerState
    /\ job = NotInvoked
    /\ global_state = InitialGlobalState
    /\ globalRun = NotStarted
    /\ rateLimiter = NewRateLimiter
    /\ hypermap_transactions = {}
    /\ provider_leaderboard = [p \in ProviderSet |-> NoRow]
    /\ block_processing_log = {}
    /\ runs = 0
    /\ running = FALSE
    /\ safeBlockHeight = 0
    /\ idx = 1
    /\ status = [p \in ProviderSet |-> "none"]
    /\ pending = [p \in ProviderSet |-> NoResult]
    /\ base = [p \in ProviderSet |-> NoBase]
    /\ runStart = provider_leaderboard
    /\ prevRun = NoRun

\* lines 282-336: the watermark, the chain height, the early return, the discovery
startGlobalRun ==
    /\ globalRun.pc \in {"idle", "returned", "threw"}
    /\ globalRun.run < MaxTrackerRuns
    /\ \E currentHeight \in {h \in Heights : h >= globalRun.currentHeight}, ok \in BOOLEAN :
        LET lastProcessedBlock == global_state.last_processed_block
            safeHeight == SafeHeight(currentHeight)
            fresh == [NotStarted EXCEPT !.run = globalRun.run + 1,
                                        !.currentHeight = currentHeight,
                                        !.lastProcessedBlock = lastProcessedBlock,
                                        !.safeHeight = safeHeight]
        IN globalRun' =
            IF lastProcessedBlock >= safeHeight THEN [fresh EXCEPT !.pc = "returned"]
            ELSE IF ok THEN [fresh EXCEPT !.pc = "fetching"]
            ELSE [fresh EXCEPT !.pc = "threw"]
    /\ UNCHANGED <<upstream, apiOutOfRange, requireDefined, rateLimiter, invocations, call, tracker_state, job,
                   global_state, dbVars, runVars>>

\* lines 369-421: one provider of the loop; a fetch that failed after its
\* retries is caught and the loop goes on
fetchForProvider(p) ==
    /\ globalRun.pc = "fetching"
    /\ globalRun.i <= Len(Providers)
    /\ Providers[globalRun.i] = p
    /\ \E fetched \in BOOLEAN :
        IF fetched
        THEN \E transactions \in AscendingLists(TokenTx(wallet_address(p),
                                                         globalRun.lastProcessedBlock + 1,
                                                         globalRun.safeHeight)) :
                globalRun' = [globalRun EXCEPT
                    !.i = @ + 1,
                    !.transactionBatch = @ \o ValidIncoming(transactions, wallet_address(p))]
        ELSE globalRun' = [globalRun EXCEPT !.i = @ + 1, !.fetchFailed = @ \cup {p}]
    /\ UNCHANGED <<upstream, apiOutOfRange, requireDefined, rateLimiter, invocations, call, tracker_state, job,
                   global_state, dbVars, runVars>>

\* lines 423-468: the rest of the batch, global_state, the leaderboard, COMMIT;
\* a query that fails rolls the transaction back
finishGlobalRun ==
    /\ globalRun.pc = "fetching"
    /\ globalRun.i > Len(Providers)
    /\ \E ok \in BOOLEAN :
        IF ok
        THEN LET ledger == insertTransactionBatch(hypermap_transactions, globalRun.transactionBatch)
             IN /\ hypermap_transactions' = ledger
                /\ global_state' = [global_state EXCEPT !.last_processed_block = globalRun.safeHeight]
                /\ provider_leaderboard' =
                        [q \in ProviderSet |-> LeaderboardFromLedger(ledger, provider_leaderboard[q], q)]
                /\ globalRun' = [globalRun EXCEPT !.pc = "returned"]
        ELSE /\ globalRun' = [globalRun EXCEPT !.pc = "threw"]
             /\ UNCHANGED <<hypermap_transactions, global_state, provider_leaderboard>>
    /\ UNCHANGED <<upstream, apiOutOfRange, requireDefined, rateLimiter, invocations, call, tracker_state, job,
                   block_processing_log, runVars>>

NextGlobal ==
    \/ startGlobalRun
    \/ \E p \in ProviderSet : fetchForProvider(p)
    \/ finishGlobalRun

GlobalSpec == InitGlobal /\ [][NextGlobal]_vars

(***************************************************************************)
(* A kill of the process while a provider is being processed (SIGKILL, a   *)
(* container restart).  What is committed stays; an open database          *)
(* transaction is rolled back by the server.  Inside                       *)
(* processProviderTransactions the kill can come before or after the       *)
(* repair of line 240 is committed.  CrashSpec lets the first run be       *)
(* killed; the runs that follow are those of Spec.                         *)
(***************************************************************************)
Kill(p) ==
    /\ running
    /\ runs = 0
    /\ idx <= Len(Providers)
    /\ Providers[idx] = p
    /\ status[p] \in {"pending", "reconciled", "recorded"}
    /\ \E repaired \in BOOLEAN :
        LET storedBlock == getProviderCurrentStats(p).last_processed_block
            validatedLastBlock == validateAndFixBlockNumber(storedBlock, safeBlockHeight)
        IN IF /\ repaired
              /\ status[p] = "pending"
              /\ validatedLastBlock # storedBlock
              /\ ~UpdateLastProcessedBlockThrows(validatedLastBlock)
           THEN provider_leaderboard' =
                    [provider_leaderboard EXCEPT ![p] = LastProcessedBlockUpsert(@, validatedLastBlock)]
           ELSE provider_leaderboard' = provider_leaderboard
    /\ status' = [status EXCEPT ![p] = "killed"]
    /\ running' = FALSE
    /\ runs' = runs + 1
    /\ UNCHANGED <<envVars, hypermap_transactions, block_processing_log,
                   safeBlockHeight, idx, pending, base, runStart, prevRun>>

NextCrash ==
    \/ Next
    \/ \E p \in ProviderSet : Kill(p)

CrashSpec == Init /\ [][NextCrash]_vars

(***************************************************************************)
(* Reading the watermark.  node-postgres hands a BIGINT column to the code *)
(* as a decimal string and an INTEGER column as a number; the code parses  *)
(* what it reads (getProviderCurrentStats, validateAndFixBlockNumber and   *)
(* processProviderTransactions each call parseInt) before it adds 1.  A    *)
(* JavaScript value is modelled by its type, its number and, for a string, *)
(* its characters; + concatenates as soon as one operand is a string.      *)
(***************************************************************************)
DriverTypes == {"number", "string"}

NumberValue(n) == [type |-> "number", nan |-> FALSE, n |-> n, chars |-> <<>>]
NotANumber == [type |-> "number", nan |-> TRUE, n |-> 0, chars |-> <<>>]
StringValue(chars) == [type |-> "string", nan |-> FALSE, n |-> 0, chars |-> chars]

\* String(n) of a non-negative integer
RECURSIVE DecimalString(_)
DecimalString(n) ==
    IF n < 10 THEN <<HexDigits[n + 1]>>
    ELSE DecimalString(n \div 10) \o <<HexDigits[(n % 10) + 1]>>

StringOf(value) ==
    IF value.type = "string" THEN value.chars
    ELSE DecimalString(value.n)

IsDecimalDigit(c) == \E k \in 1..10 : HexDigits[k] = c

RECURSIVE LeadingDecimalDigits(_)
LeadingDecimalDigits(chars) ==
    IF chars = <<>> \/ ~IsDecimalDigit(chars[1]) THEN <<>>
    ELSE <<chars[1]>> \o LeadingDecimalDigits(Tail(chars))

RECURSIVE DecimalValue(_)
DecimalValue(digits) ==
    IF digits = <<>> THEN 0
    ELSE 10 * DecimalValue(SubSeq(digits, 1, Len(digits) - 1))
            + HexDigitValue(digits[Len(digits)])

\* a variant that hands its argument back unparsed
parseInt_Unparsed(value) == value

\* parseInt(value): the leading decimal digits of String(value), or NaN
parseInt(value) ==
    LET digits == LeadingDecimalDigits(StringOf(value))
    IN IF value.type = "number" /\ value.nan THEN NotANumber
       ELSE IF digits = <<>> THEN NotANumber
       ELSE NumberValue(DecimalValue(digits))

\* value || 0
OrZero(value) ==
    IF value.type = "number" /\ (value.nan \/ value.n = 0) THEN NumberValue(0)
    ELSE IF value.type = "string" /\ value.chars = <<>> THEN NumberValue(0)
    ELSE value

\* the number a comparison coerces the value to
ToNumber(value) ==
    IF value.type = "string" THEN DecimalValue(value.chars) ELSE value.n

\* a + b
Plus(a, b) ==
    IF a.type = "string" \/ b.type = "string"
    THEN StringValue(StringOf(a) \o StringOf(b))
    ELSE IF a.nan \/ b.nan THEN NotANumber
    ELSE NumberValue(a.n + b.n)

\* a === b
StrictEqual(a, b) == a.type = b.type /\ ~a.nan /\ ~b.nan /\ a = b

\* what the driver returns for a stored value
DriverValue(type, stored) ==
    IF type = "string" THEN StringValue(DecimalString(stored)) ELSE NumberValue(stored)

\* getProviderCurrentStats: last_processed_block: parseInt(...) || 0
ReadLastProcessedBlock(value) == OrZero(parseInt(value))

\* validateAndFixBlockNumber on the value read: it returns its parsed block
\* when it leaves it alone, a number when it repairs it
ValidatedValue(blockNumber, currentHeight) ==
    LET block == OrZero(parseInt(blockNumber))
        fixed == validateAndFixBlockNumber(ToNumber(block), currentHeight)
    IN IF fixed = ToNumber(block) THEN block ELSE NumberValue(fixed)

\* the fromBlock of processProviderTransactions
FetchStart(value, currentHeight) ==
    LET read == ReadLastProcessedBlock(value)
        validatedLastBlock == ValidatedValue(read, currentHeight)
        last_processed_block ==
            IF ~StrictEqual(validatedLastBlock, read) THEN validatedLastBlock ELSE read
    IN Plus(parseInt(last_processed_block), NumberValue(1))

ReadableWatermarks ==
    {0, 7, 120, 1090, 1091, 1300, 31522855, 99999999, 100000001, 157614271}

InitRead ==
    /\ NothingRunning
    /\ hypermap_transactions = {}
    /\ \E type \in DriverTypes, stored \in ReadableWatermarks, currentHeight \in ObservedHeights :
        call = [fn |-> "fromBlock", args |-> <<type, stored, currentHeight>>,
                done |-> FALSE, returned |-> NotANumber]

callFromBlock ==
    /\ call.fn = "fromBlock"
    /\ ~call.done
    /\ call' = [call EXCEPT !.done = TRUE,
                            !.returned = FetchStart(DriverValue(call.args[1], call.args[2]),
                                                    call.args[3])]
    /\ UNCHANGED <<upstream, apiOutOfRange, requireDefined, global_state, globalRun, rateLimiter, invocations, tracker_state, job,
                   dbVars, runVars>>

NextRead == callFromBlock

ReadSpec == InitRead /\ [][NextRead]_vars

(***************************************************************************)
(* RateLimiter of the global-watermark version.  One instance is shared by *)
(* every call of getCurrentBlockHeight and fetchUsdcTransactions in the    *)
(* process, so by the runs the daemon's setInterval starts while an        *)
(* earlier run is still in flight.  wait() reads the clock and             *)
(* lastCallTime, sleeps for the remainder of the interval if one is left,  *)
(* and then stamps lastCallTime; the sleep is the only point where another *)
(* caller can run.  Date.now() is far above the initial lastCallTime of 0, *)
(* so the clock starts a full interval after it.                           *)
(***************************************************************************)
\* this.lastCallTime = Date.now(), and wait() resolves
Stamp(limiter, c) ==
    [limiter EXCEPT !.lastCallTime = limiter.now,
                    !.completions = Append(@, limiter.now),
                    !.callers[c] = [pc |-> "idle", wakeAt |-> 0, calls |-> @.calls + 1]]

\* wait() up to its await: without time left to wait it stamps at once
wait(c) ==
    /\ rateLimiter.callers[c].pc = "idle"
    /\ rateLimiter.callers[c].calls < MaxWaitCalls
    /\ LET timeSinceLastCall == rateLimiter.now - rateLimiter.lastCallTime
           waitTime == minInterval - timeSinceLastCall
       IN rateLimiter' =
            IF timeSinceLastCall < minInterval
            THEN [rateLimiter EXCEPT !.callers[c].pc = "sleeping",
                                     !.callers[c].wakeAt = rateLimiter.now + waitTime]
            ELSE Stamp(rateLimiter, c)
    /\ UNCHANGED <<upstream, apiOutOfRange, requireDefined, global_state, globalRun, invocations, call,
                   tracker_state, job, dbVars, runVars>>

\* the timer of the await has fired
waitResumed(c) ==
    /\ rateLimiter.callers[c].pc = "sleeping"
    /\ rateLimiter.now >= rateLimiter.callers[c].wakeAt
    /\ rateLimiter' = Stamp(rateLimiter, c)
    /\ UNCHANGED <<upstream, apiOutOfRange, requireDefined, global_state, globalRun, invocations, call,
                   tracker_state, job, dbVars, runVars>>

\* the clock advances
Tick ==
    /\ rateLimiter.now + TickMs <= minInterval + MaxTicks * TickMs
    /\ rateLimiter' = [rateLimiter EXCEPT !.now = @ + TickMs]
    /\ UNCHANGED <<upstream, apiOutOfRange, requireDefined, global_state, globalRun, invocations, call,
                   tracker_state, job, dbVars, runVars>>

InitRate ==
    /\ NothingRunning
    /\ hypermap_transactions = {}
    /\ call = NoCall

NextRate ==
    \/ \E c \in Callers : wait(c)
    \/ \E c \in Callers : waitResumed(c)
    \/ Tick

RateSpec == InitRate /\ [][NextRate]_vars

(***************************************************************************)
(* Vocabulary of the properties.                                           *)
(***************************************************************************)
Watermark(p) == provider_leaderboard[p].last_processed_block

RunEnded == ~running /\ runs > 0

\* reconcile and apply both returned for the provider (no call threw)
Completed(st) == st \in {"applied", "uptodate"}

ApplyFailed(st) == st \in {"failed_records", "failed_stats", "failed_watermark"}

RowsOfWallet(p) == {r \in hypermap_transactions : r.to_address = wallet_address(p)}

SameRunTwice == RunEnded /\ prevRun.finished /\ prevRun.safeBlockHeight = safeBlockHeight

(***************************************************************************)
(* C1 (Conservativeness): whenever the fetch over [fromBlock, safeHeight]  *)
(* returns zero transactions and safeHeight - storedWatermark exceeds      *)
(* CONSERVATIVE_BLOCK_ADVANCE, the watermark returned by                   *)
(* processProviderTransactions exceeds the stored one by at most           *)
(* CONSERVATIVE_BLOCK_ADVANCE.                                             *)
(***************************************************************************)
C1_Conservativeness ==
    \A p \in ProviderSet :
        ( /\ status[p] = "reconciled"
          /\ pending[p].fetched
          /\ Len(pending[p].transactions) = 0
          /\ safeBlockHeight - pending[p].storedBlock > CONSERVATIVE_BLOCK_ADVANCE )
        => pending[p].lastProcessedBlock - pending[p].storedBlock <= CONSERVATIVE_BLOCK_ADVANCE

(***************************************************************************)
(* C2 (Eventual catch-up): a provider whose fetch is empty in every run,   *)
(* with the safe height held constant and initially more than one          *)
(* conservative step above its persisted watermark, eventually has its     *)
(* persisted last_processed_block equal to the safe height when the runs   *)
(* are repeated for ever.                                                  *)
(***************************************************************************)
C2_EventualCatchUp ==
    \A p \in ProviderSet : \A h \in Heights :
        ( /\ SafeHeight(h) - Watermark(p) > CONSERVATIVE_BLOCK_ADVANCE
          /\ fetchUsdcTransactions(wallet_address(p), 0, SafeHeight(h)) = {}
          /\ [](running => safeBlockHeight = SafeHeight(h))
          /\ [](status[p] \notin {"failed_process", "failed_watermark"}) )
        => <>(Watermark(p) = SafeHeight(h))

(***************************************************************************)
(* C3 (No silent loss): once reconcile and apply have completed for a      *)
(* provider, every fetched transaction with fromBlock <= blockNumber <=    *)
(* safeHeight whose lower-cased sender is in the allow-list has exactly    *)
(* one row in hypermap_transactions with its hash.                         *)
(***************************************************************************)
C3_NoSilentLoss ==
    \A p \in ProviderSet :
        Completed(status[p]) =>
            \A i \in 1..Len(pending[p].transactions) :
                LET t == pending[p].transactions[i] IN
                ( /\ pending[p].fromBlock <= t.blockNumber
                  /\ t.blockNumber <= safeBlockHeight
                  /\ ToLowerCase(t.from) \in buildTbaLookup )
                => Cardinality({r \in hypermap_transactions : r.tx_hash = t.hash}) = 1

C3_Witness ==
    \E p \in ProviderSet :
        /\ status[p] = "applied"
        /\ Len(pending[p].validTransactions) >= 2
        /\ \A i \in 1..Len(pending[p].validTransactions) :
              \E r \in hypermap_transactions : r.tx_hash = pending[p].validTransactions[i].txHash

C5_NeverAboveSafeHeight ==
    RunEnded => \A p \in ProviderSet : Watermark(p) <= safeBlockHeight

(***************************************************************************)
(* C5 as amended: at the end of every run the persisted                    *)
(* last_processed_block is at most the larger of that run's safeHeight and *)
(* the value stored when the run began.                                    *)
(***************************************************************************)
C5_NeverAboveSafeHeightOrStart ==
    RunEnded =>
        \A p \in ProviderSet :
            Watermark(p) <= Max(safeBlockHeight, runStart[p].last_processed_block)

C5_Witness ==
    /\ RunEnded
    /\ \E p \in ProviderSet :
          /\ runStart[p].last_processed_block < safeBlockHeight
          /\ Watermark(p) = safeBlockHeight

(***************************************************************************)
(* C6 (Idempotence of aggregates): when reconcile and apply have run for a *)
(* provider in two successive runs with the same upstream data and the     *)
(* same safeHeight, total_usdc_received, transaction_count and             *)
(* unique_sender_count after the second run equal those after the first.   *)
(***************************************************************************)
C6_IdempotentAggregates ==
    SameRunTwice =>
        \A p \in ProviderSet :
            (Completed(prevRun.status[p]) /\ Completed(status[p])) =>
                /\ provider_leaderboard[p].total_usdc_received = prevRun.endRows[p].total_usdc_received
                /\ provider_leaderboard[p].transaction_count = prevRun.endRows[p].transaction_count
                /\ provider_leaderboard[p].unique_sender_count = prevRun.endRows[p].unique_sender_count

C6_Witness ==
    /\ SameRunTwice
    /\ \E p \in ProviderSet :
          /\ prevRun.status[p] = "applied"
          /\ Completed(status[p])
          /\ prevRun.endRows[p].transaction_count > 0
          /\ provider_leaderboard[p].transaction_count = prevRun.endRows[p].transaction_count

C8_AggregateConsistency ==
    RunEnded =>
        \A p \in ProviderSet :
            /\ provider_leaderboard[p].transaction_count = Cardinality(RowsOfWallet(p))
            /\ provider_leaderboard[p].total_usdc_received = SumRows(RowsOfWallet(p))

(***************************************************************************)
(* C9 (Stats/watermark pairing): in every committed step, the aggregate    *)
(* stats of a provider change only together with the watermark of the      *)
(* batch, and while a non-empty batch is being applied the watermark       *)
(* changes only together with the batch's stats delta.                     *)
(***************************************************************************)
C9_StatsWatermarkPairing ==
    [][\A p \in ProviderSet :
        LET old == provider_leaderboard[p]
            new == provider_leaderboard'[p]
            batch == pending[p].validTransactions
            delta == /\ new.transaction_count = old.transaction_count + Len(batch)
                     /\ new.total_usdc_received = old.total_usdc_received + SumSeq(batch)
        IN /\ ( \/ new.transaction_count # old.transaction_count
                \/ new.total_usdc_received # old.total_usdc_received
                \/ new.unique_sender_count # old.unique_sender_count )
              => (Len(batch) > 0 /\ delta /\ new.last_processed_block = pending[p].lastProcessedBlock)
           /\ ( /\ status[p] \in {"reconciled", "recorded"}
                /\ Len(batch) > 0
                /\ new.last_processed_block # old.last_processed_block )
              => delta
      ]_vars

C9_Witness ==
    \E p \in ProviderSet :
        /\ status[p] = "applied"
        /\ Len(pending[p].validTransactions) > 0
        /\ provider_leaderboard[p].transaction_count = Len(pending[p].validTransactions)
        /\ Watermark(p) = pending[p].lastProcessedBlock
        /\ Watermark(p) # base[p].row.last_processed_block

(***************************************************************************)
(* C10 (All-or-nothing apply): when a step of applying a provider's batch  *)
(* has failed, none of the batch's effects is durable: no ledger row of    *)
(* the batch has been added, and the provider's stats and watermark are    *)
(* those from before the batch.                                            *)
(***************************************************************************)
C10_AllOrNothingApply ==
    \A p \in ProviderSet :
        ApplyFailed(status[p]) =>
            /\ \A i \in 1..Len(pending[p].validTransactions) :
                  (\E r \in hypermap_transactions : r.tx_hash = pending[p].validTransactions[i].txHash)
                  => (\E r \in base[p].ledger : r.tx_hash = pending[p].validTransactions[i].txHash)
            /\ provider_leaderboard[p] = base[p].row

(***************************************************************************)
(* C11 (Crash recovery): when the first run is killed while a provider is  *)
(* being processed and the next run, with the same upstream data and safe  *)
(* height, completes for that provider, the provider's ledger rows,        *)
(* total_usdc_received, transaction_count, unique_sender_count and         *)
(* last_processed_block are those an uninterrupted run from the state      *)
(* before the killed run produces (for some order of the fetched list).    *)
(***************************************************************************)
ProviderRows(p, ledger) ==
    {r \in ledger : ToLowerCase(r.to_address) = ToLowerCase(wallet_address(p))}

\* what lines 499-518 leave for the provider when nothing fails and nothing is killed
UninterruptedRun(p, row0, ledger0, safeHeight, fetchedList) ==
    LET storedBlock == row0.last_processed_block
        validatedLastBlock == validateAndFixBlockNumber(storedBlock, safeHeight)
        rowFixed == IF validatedLastBlock # storedBlock
                    THEN LastProcessedBlockUpsert(row0, validatedLastBlock)
                    ELSE row0
        result == IF FromBlock(validatedLastBlock) > safeHeight
                  THEN CaughtUpResult(storedBlock, validatedLastBlock)
                  ELSE ReconcileResult(storedBlock, validatedLastBlock, fetchedList,
                                       safeHeight, buildTbaLookup)
        ledger1 == InsertAll(ledger0, result.validTransactions)
    IN CASE Len(result.validTransactions) > 0 ->
              [ledger |-> ledger1,
               row |-> LeaderboardStatsUpsert(rowFixed, rowFixed, ledger1, wallet_address(p),
                                              result.validTransactions, result.lastProcessedBlock)]
         [] Len(result.validTransactions) = 0 /\ result.reachedSafeHeight ->
              [ledger |-> ledger0, row |-> LastProcessedBlockUpsert(rowFixed, result.lastProcessedBlock)]
         [] OTHER -> [ledger |-> ledger0, row |-> rowFixed]

RecoveredAfterKill(p) ==
    /\ prevRun.status[p] = "killed"
    /\ prevRun.safeBlockHeight = safeBlockHeight
    /\ Completed(status[p])

C11_CrashRecovery ==
    \A p \in ProviderSet :
        RecoveredAfterKill(p) =>
            LET row0 == prevRun.startRows[p]
                ledger0 == hypermap_transactions \ ProviderRows(p, hypermap_transactions)
                lastBlock == validateAndFixBlockNumber(row0.last_processed_block, safeBlockHeight)
            IN \E fetchedList \in Orderings(fetchUsdcTransactions(wallet_address(p),
                                                FromBlock(lastBlock), safeBlockHeight)) :
                LET expected == UninterruptedRun(p, row0, ledger0, safeBlockHeight, fetchedList)
                IN /\ ProviderRows(p, hypermap_transactions) = ProviderRows(p, expected.ledger)
                   /\ provider_leaderboard[p].total_usdc_received = expected.row.total_usdc_received
                   /\ provider_leaderboard[p].transaction_count = expected.row.transaction_count
                   /\ provider_leaderboard[p].unique_sender_count = expected.row.unique_sender_count
                   /\ provider_leaderboard[p].last_processed_block = expected.row.last_processed_block

\* the kill came between the ledger commit and the stats commit
C11_Witness ==
    \E p \in ProviderSet :
        /\ RecoveredAfterKill(p)
        /\ status[p] = "applied"
        /\ Len(pending[p].validTransactions) > 0
        /\ \E r \in base[p].ledger : r.tx_hash = pending[p].validTransactions[1].txHash
        /\ provider_leaderboard[p].transaction_count = Len(pending[p].validTransactions)

(***************************************************************************)
(* C12 (Ledger keyed by txHash, append-only): in every step of every run   *)
(* the rows of hypermap_transactions stay as they are (no row is removed   *)
(* or rewritten), the table holds at most one row per tx_hash, and the     *)
(* insert of a hash that is already present (by either version's insert)   *)
(* is a no-op.                                                             *)
(***************************************************************************)
UniqueByHash(ledger) == \A r1, r2 \in ledger : r1.tx_hash = r2.tx_hash => r1 = r2

C12_LedgerAppendOnly ==
    [][ /\ hypermap_transactions \subseteq hypermap_transactions'
        /\ UniqueByHash(hypermap_transactions')
        /\ \A p \in ProviderSet :
             LET batch == pending'[p].validTransactions IN
             /\ \A i \in 1..Len(batch) :
                   (\E r \in hypermap_transactions' : r.tx_hash = batch[i].txHash)
                   => InsertOnConflictDoNothing(hypermap_transactions', batch[i]) = hypermap_transactions'
             /\ hypermap_transactions' \subseteq insertTransactionBatch(hypermap_transactions', batch)
             /\ UniqueByHash(insertTransactionBatch(hypermap_transactions', batch))
      ]_vars

\* a batch was committed whose first hash was in the ledger before
C12_Witness ==
    \E p \in ProviderSet :
        /\ status[p] = "recorded"
        /\ Len(pending[p].validTransactions) > 0
        /\ \E r \in base[p].ledger : r.tx_hash = pending[p].validTransactions[1].txHash
        /\ hypermap_transactions # {}

(***************************************************************************)
(* C13 (No concurrent reconciliation of one provider): in daemon mode, at  *)
(* no time are two reconcile/apply sequences for the same provider in      *)
(* progress at once, however long a run takes.                             *)
(***************************************************************************)
C13_NoConcurrentReconciliation ==
    \A p \in ProviderSet : Cardinality({s \in Slots : Processing(s, p)}) <= 1

(***************************************************************************)
(* C14 (Order-of-magnitude repair): validateAndFixBlockNumber returns the  *)
(* stored watermark W unchanged when W <= H + 1000, and floor(W / 10) when *)
(* W > H + 1000 and W > 100000000; W = 315228551 with H = 31522845 gives   *)
(* 31522855.                                                               *)
(***************************************************************************)
RepairCalled == call.fn = "validateAndFixBlockNumber" /\ call.done

C14_OrderOfMagnitudeRepair ==
    RepairCalled =>
        LET W == call.args[1]
            H == call.args[2]
        IN /\ W <= H + 1000 => call.returned = W
           /\ (W > H + 1000 /\ W > 100000000) => call.returned = W \div 10
           /\ (W = 315228551 /\ H = 31522845) => call.returned = 31522855

C14_Witness ==
    /\ RepairCalled
    /\ call.args = <<315228551, 31522845>>
    /\ call.returned = 31522855

(***************************************************************************)
(* C15 (Repair fallback): whenever the stored watermark exceeds the        *)
(* observed height plus the tolerance and the order-of-magnitude           *)
(* correction does not apply or its result still exceeds the tolerance,    *)
(* the repaired watermark is the highest block among the transactions      *)
(* recorded for the provider, or 0 if none is recorded.                    *)
(***************************************************************************)
HighestRecordedBlock(p, ledger) ==
    IF ProviderRows(p, ledger) = {} THEN 0
    ELSE CHOOSE b \in {r.block_number : r \in ProviderRows(p, ledger)} :
            \A r \in ProviderRows(p, ledger) : r.block_number <= b

C15_RepairFallback ==
    RepairCalled =>
        LET W == call.args[1]
            H == call.args[2]
        IN (/\ W > H + CORRUPTION_TOLERANCE
            /\ \/ W <= MAX_REASONABLE_BLOCK
               \/ W \div 10 > H + CORRUPTION_TOLERANCE)
           => call.returned = HighestRecordedBlock("p1", hypermap_transactions)

(***************************************************************************)
(* C16 (Watermark range guard): a call of updateLastProcessedBlock or of   *)
(* updateLeaderboardStatsIncremental with a last_processed_block outside   *)
(* [0, 100000000), the value 100000000 and the negative ones included,     *)
(* fails and leaves the stored watermark as it was.                        *)
(***************************************************************************)
OutsideRange(block) == block < 0 \/ block >= 100000000

WriteReturns == call.fn \in WriteFunctions /\ ~call.done /\ call'.done

C16_WatermarkRangeGuard ==
    [][ (WriteReturns /\ OutsideRange(call.args[1]))
        => /\ call'.returned = "rejected"
           /\ \A p \in ProviderSet :
                /\ provider_leaderboard'[p].present = provider_leaderboard[p].present
                /\ provider_leaderboard'[p].last_processed_block = Watermark(p) ]_vars

C16_Witness ==
    /\ call.fn = "updateLeaderboardStatsIncremental"
    /\ call.done
    /\ call.args[1] = 100000000
    /\ call.returned = "rejected"
    /\ provider_leaderboard["p1"] = StoredRow(120)

(***************************************************************************)
(* C17 (Filtering): for any fetched list in any order, the emitted         *)
(* validTransactions are exactly the fetched transactions with             *)
(* fromBlock <= blockNumber <= safeHeight whose lower-cased from address   *)
(* is a key of the allow-list; blocks [10, 50, 90] with senders            *)
(* [allow, not-allow, allow] emit exactly blocks 10 and 90.                *)
(***************************************************************************)
DecisionFetched ==
    call.fn = "processProviderTransactions" /\ call.done /\ call.returned.fetched

InRangeFetched ==
    {t \in Range(call.args[2]) :
        call.args[1] + 1 <= t.blockNumber /\ t.blockNumber <= call.args[3]}

C17_Filtering ==
    DecisionFetched =>
        LET expected == {t \in InRangeFetched : ToLowerCase(t.from) \in buildTbaLookup}
            emitted == call.returned.validTransactions
        IN /\ Range(emitted) = {ValidTransaction(t) : t \in expected}
           /\ Len(emitted) = Cardinality(expected)

C17_Witness ==
    /\ DecisionFetched
    /\ call.args[1] = 0
    /\ call.args[3] = 100
    /\ Len(call.args[2]) = 3
    /\ {t.blockNumber : t \in Range(call.args[2])} = {10, 50, 90}
    /\ call.args[2][1].blockNumber = 90
    /\ \E t \in Range(call.args[2]) : ToLowerCase(t.from) \notin buildTbaLookup
    /\ Len(call.returned.validTransactions) = 2
    /\ call.returned.validTransactions[1].blockNumber = 10
    /\ call.returned.validTransactions[2].blockNumber = 90

(***************************************************************************)
(* C18 (Normal advance): when at least one fetched transaction lies in     *)
(* [fromBlock, safeHeight], the returned lastProcessedBlock is             *)
(* min(maxBlockSeen, safeHeight), maxBlockSeen being the highest block of  *)
(* the in-range fetched transactions whether or not their sender is in the *)
(* allow-list, and reachedSafeHeight is true exactly when that value is    *)
(* >= safeHeight.                                                          *)
(***************************************************************************)
C18_NormalAdvance ==
    (DecisionFetched /\ InRangeFetched # {}) =>
        LET maxBlockSeen == CHOOSE b \in {t.blockNumber : t \in InRangeFetched} :
                                \A t \in InRangeFetched : t.blockNumber <= b
            advance == IF maxBlockSeen < call.args[3] THEN maxBlockSeen ELSE call.args[3]
        IN /\ call.returned.lastProcessedBlock = advance
           /\ call.returned.reachedSafeHeight <=> (advance >= call.args[3])

C18_Witness ==
    /\ DecisionFetched
    /\ call.args[1] = 0
    /\ call.args[3] = 60
    /\ {t.blockNumber : t \in Range(call.args[2])} = {10, 50, 90}
    /\ call.returned.lastProcessedBlock = 50
    /\ ~call.returned.reachedSafeHeight
    /\ Len(call.returned.validTransactions) = 1

(***************************************************************************)
(* C19 (Empty fetch near the boundary): when the fetch returns no          *)
(* transaction and safeHeight - storedWatermark <= CONSERVATIVE_BLOCK_     *)
(* ADVANCE, the run ends with the provider's persisted last_processed_     *)
(* block equal to safeHeight and reachedSafeHeight = true.                 *)
(***************************************************************************)
EmptyFetchNearBoundary(p) ==
    /\ pending[p].fetched
    /\ Len(pending[p].transactions) = 0
    /\ pending[p].fromBlock = pending[p].storedBlock + 1
    /\ safeBlockHeight - pending[p].storedBlock <= CONSERVATIVE_BLOCK_ADVANCE

C19_EmptyFetchNearBoundary ==
    RunEnded =>
        \A p \in ProviderSet :
            (status[p] # "failed_process" /\ EmptyFetchNearBoundary(p))
            => /\ pending[p].reachedSafeHeight
               /\ Watermark(p) = safeBlockHeight

(***************************************************************************)
(* C20 (Caught-up no-op): when the stored watermark needs no repair and    *)
(* storedWatermark + 1 > safeHeight, processing the provider makes no      *)
(* upstream fetch, returns no transactions with reachedSafeHeight = false, *)
(* raises no error, and leaves the provider's ledger rows, aggregate stats *)
(* and watermark unchanged.                                                *)
(***************************************************************************)
CaughtUp(p) ==
    LET W == getProviderCurrentStats(p).last_processed_block
    IN /\ W <= safeBlockHeight + 1000
       /\ W + 1 > safeBlockHeight

ProviderUntouched(p) ==
    /\ provider_leaderboard'[p] = provider_leaderboard[p]
    /\ ProviderRows(p, hypermap_transactions') = ProviderRows(p, hypermap_transactions)

C20_CaughtUpNoOp ==
    [][ \A p \in ProviderSet :
          /\ (running /\ status[p] = "pending" /\ status'[p] # "pending" /\ CaughtUp(p))
             => /\ status'[p] = "reconciled"
                /\ ~pending'[p].fetched
                /\ pending'[p].validTransactions = <<>>
                /\ ~pending'[p].reachedSafeHeight
                /\ ProviderUntouched(p)
          /\ (running /\ status[p] = "reconciled" /\ ~pending[p].fetched
                /\ pending[p].storedBlock = pending[p].lastProcessedBlock
                /\ status'[p] # "reconciled")
             => /\ status'[p] = "uptodate"
                /\ ProviderUntouched(p) ]_vars

C20_Witness ==
    /\ status["p1"] = "uptodate"
    /\ ~pending["p1"].fetched
    /\ pending["p1"].storedBlock = 120
    /\ safeBlockHeight = 90
    /\ provider_leaderboard["p1"] = StoredRow(120)
    /\ hypermap_transactions = {}

(***************************************************************************)
(* C21 (Stale transactions do not influence the advance decision): adding  *)
(* transactions with blockNumber < fromBlock to a fetch result changes     *)
(* neither the emitted transactions nor the returned lastProcessedBlock    *)
(* and reachedSafeHeight; a fetch of stale transactions only yields the    *)
(* decision of an empty fetch.                                             *)
(***************************************************************************)
WithoutStale(fetchedList, fromBlock) ==
    SelectSeq(fetchedList, LAMBDA tx : ~(tx.blockNumber < fromBlock))

DecisionWithoutStale ==
    ReconcileResult(call.args[1], call.args[1],
                    WithoutStale(call.args[2], FromBlock(call.args[1])),
                    call.args[3], buildTbaLookup)

C21_StaleDoNotInfluence ==
    DecisionFetched =>
        /\ call.returned.validTransactions = DecisionWithoutStale.validTransactions
        /\ call.returned.lastProcessedBlock = DecisionWithoutStale.lastProcessedBlock
        /\ call.returned.reachedSafeHeight = DecisionWithoutStale.reachedSafeHeight

(***************************************************************************)
(* C22 (Partial-failure isolation): if processing one provider fails,      *)
(* runPaymentTracker still processes every later provider of the list in   *)
(* the same run.                                                           *)
(***************************************************************************)
JobFinished == job.mode # "none" /\ job.pc \in {"returned", "threw", "exited", "idle"}

C22_PartialFailureIsolation ==
    (JobFinished /\ job.failed # {}) => job.entered = job.providers

(***************************************************************************)
(* C23 (Discovery failure is fatal to the run): when the 'hypr' or the     *)
(* 'grid-beta' namespace entry is not found, runPaymentTracker processes   *)
(* no provider, changes no ledger row, aggregate or watermark, increments  *)
(* failed_runs with the error text in last_error, and rethrows so that a   *)
(* one-shot invocation exits with status 1.                                *)
(***************************************************************************)
NamespaceNotFound ==
    /\ JobFinished
    /\ job.cause \in {RunError("hypr namespace not found"),
                      RunError("grid-beta.hypr namespace not found")}

NothingProcessed ==
    /\ job.entered = <<>>
    /\ hypermap_transactions = {}
    /\ provider_leaderboard = [p \in ProviderSet |-> NoRow]
    /\ block_processing_log = {}

Rethrown == job.pc # "returned" /\ (job.pc = "exited" => job.exit = 1)

FailureRecorded ==
    /\ tracker_state.failed_runs = job.atStart.failed_runs + 1
    /\ tracker_state.last_error = job.cause

C23_DiscoveryFailureFatal ==
    NamespaceNotFound => (NothingProcessed /\ FailureRecorded /\ Rethrown)

\* as amended: the failure is recorded unless the UPDATE of the catch itself
\* fails; then tracker_state keeps its counters and text of before the catch
C23_DiscoveryFailureFatalIfRecorded ==
    NamespaceNotFound =>
        /\ NothingProcessed
        /\ Rethrown
        /\ IF job.recorded
           THEN FailureRecorded
           ELSE /\ tracker_state.failed_runs = job.atStart.failed_runs
                /\ tracker_state.last_error = job.atStart.last_error

C23_Witness ==
    /\ NamespaceNotFound
    /\ job.cause = RunError("grid-beta.hypr namespace not found")
    /\ job.mode = "oneshot"
    /\ job.pc = "exited"
    /\ job.exit = 1
    /\ job.recorded
    /\ tracker_state.failed_runs = 1
    /\ tracker_state.last_error = job.cause

(***************************************************************************)
(* C26 (Error visibility between runs): after a run in which at least one  *)
(* provider's processing failed, tracker_state.last_error still holds a    *)
(* provider error text from that run once the run has finished and until   *)
(* the next run starts.                                                    *)
(***************************************************************************)
C26_ErrorVisibility ==
    (JobFinished /\ job.failed # {})
    => \E p \in job.failed : tracker_state.last_error = ProviderError(p)

(***************************************************************************)
(* C29 (Every provider is reconciled): in a run where discovery and the    *)
(* chain-height query succeed, runPaymentTracker reaches the call to       *)
(* processProviderTransactions exactly once for each discovered provider,  *)
(* in list order.                                                          *)
(***************************************************************************)
C29_EveryProviderReconciled ==
    (JobFinished /\ job.cause = NoError) => job.reconciled = job.providers

(***************************************************************************)
(* C24 (Empty-result contract of the transaction source): a response       *)
(* 'No transactions found' (status '0' with that text in message or in     *)
(* result) makes fetchUsdcTransactions return an empty list on that        *)
(* attempt, with no retry and no exception; any other non-success response *)
(* is retried, and thrown after MAX_RETRIES attempts.                      *)
(***************************************************************************)
SaysNoTransactionsFound(data) ==
    /\ data.received
    /\ data.status = "0"
    /\ "No transactions found" \in {data.message, data.result}

OtherNonSuccess(data) ==
    /\ data.received
    /\ data.status # "1"
    /\ ~SaysNoTransactionsFound(data)

C24_EmptyResultContract ==
    call.fn = "fetchUsdcTransactions" =>
        \A n \in 1..Len(call.attempts) :
            /\ SaysNoTransactionsFound(call.attempts[n])
               => /\ n = Len(call.attempts)
                  /\ call.done
                  /\ call.returned = Returned("[]")
            /\ OtherNonSuccess(call.attempts[n])
               => IF n < call.args[1]
                  THEN n = Len(call.attempts) => ~call.done
                  ELSE /\ call.done
                       /\ call.returned = Thrown(call.attempts[n], call.args[1])

C24_Witness ==
    /\ call.fn = "fetchUsdcTransactions"
    /\ call.args[1] = 3
    /\ call.done
    /\ Len(call.attempts) = 2
    /\ call.attempts[1] = Response("0", "NOTOK", "Max rate limit reached")
    /\ call.attempts[2] = Response("0", "NOTOK", "No transactions found")
    /\ call.returned = Returned("[]")

(***************************************************************************)
(* C25 (Bounded retry of the chain height oracle): for MAX_RETRIES >= 1,   *)
(* getCurrentBlockHeight (directly, and through withRetry in the global-   *)
(* watermark version) performs at most MAX_RETRIES attempts, returns the   *)
(* result of the first successful attempt without further attempts, and    *)
(* after MAX_RETRIES consecutive failures terminates by throwing the last  *)
(* error.                                                                  *)
(***************************************************************************)
HeightOutcome(n) ==
    IF call.fn = "getCurrentBlockHeight"
    THEN BlockNumberOutcome(call.attempts[n], n)
    ELSE BlockNumberOutcomeGlobal(call.attempts[n], n)

C25_BoundedRetry ==
    (call.fn \in {"getCurrentBlockHeight", "withRetry(getCurrentBlockHeight)"}
        /\ call.args[1] >= 1) =>
        LET made == Len(call.attempts)
            succeeded == {n \in 1..made : HeightOutcome(n).kind = "returned"}
        IN /\ made <= call.args[1]
           /\ \A n \in succeeded : n = made /\ call.done /\ call.returned = HeightOutcome(n)
           /\ (succeeded = {} /\ made = call.args[1])
              => call.done /\ call.returned = Thrown(call.attempts[made], made)
           /\ (succeeded = {} /\ made < call.args[1]) => ~call.done

C25_Witness ==
    /\ call.fn = "getCurrentBlockHeight"
    /\ call.args[1] = 3
    /\ call.done
    /\ Len(call.attempts) = 3
    /\ call.returned = Thrown(Response("0", "NOTOK", ""), 3)
    /\ call.attempts[1] = NoResponse

(***************************************************************************)
(* C27 (Persist-only-when-confirmed policy): apart from corruption repair, *)
(* a run changes a provider's persisted last_processed_block only if       *)
(* allow-listed transactions were found for it (advancing to the highest   *)
(* block seen) or no valid transaction was found and the computed          *)
(* watermark reached safeHeight; in every other case the persisted         *)
(* watermark is left unchanged.                                            *)
(***************************************************************************)
Decided(p) ==
    status[p] \in {"reconciled", "recorded", "applied", "uptodate",
                   "failed_records", "failed_stats", "failed_watermark"}

InRangeSeen(p) ==
    {t.blockNumber : t \in {u \in Range(pending[p].transactions) :
        pending[p].fromBlock <= u.blockNumber /\ u.blockNumber <= safeBlockHeight}}

HighestSeen(p) == CHOOSE b \in InRangeSeen(p) : \A c \in InRangeSeen(p) : c <= b

C27_PersistOnlyWhenConfirmed ==
    \A p \in ProviderSet :
        Decided(p) =>
            \/ Watermark(p) = base[p].row.last_processed_block
            \/ /\ status[p] = "applied"
               /\ Len(pending[p].validTransactions) > 0
               /\ Watermark(p) = HighestSeen(p)
            \/ /\ status[p] = "applied"
               /\ Len(pending[p].validTransactions) = 0
               /\ pending[p].lastProcessedBlock >= safeBlockHeight
               /\ Watermark(p) = pending[p].lastProcessedBlock

C27_Witness ==
    /\ status["p1"] = "applied"
    /\ Len(pending["p1"].validTransactions) = 0
    /\ Watermark("p1") = safeBlockHeight
    /\ base["p1"].row.last_processed_block < safeBlockHeight
    /\ status["p2"] = "uptodate"
    /\ pending["p2"].fetched
    /\ Watermark("p2") = base["p2"].row.last_processed_block

(***************************************************************************)
(* C28 (Advance on unmatched-only ranges): when a run fetches at least one *)
(* in-range transaction for a provider but none has an allow-listed        *)
(* sender, the provider's persisted last_processed_block after the run     *)
(* equals min(maxBlockSeen, safeHeight), also when maxBlockSeen is below   *)
(* safeHeight.  (Stated for the runs in which no write failed.)            *)
(***************************************************************************)
UnmatchedOnly(p) ==
    /\ pending[p].fetched
    /\ InRangeSeen(p) # {}
    /\ Len(pending[p].validTransactions) = 0

C28_AdvanceOnUnmatchedOnly ==
    RunEnded =>
        \A p \in ProviderSet :
            (UnmatchedOnly(p) /\ Completed(status[p]))
            => Watermark(p) = Min(HighestSeen(p), safeBlockHeight)

(***************************************************************************)
(* C30 (Global-watermark version): a run advances the single global        *)
(* last_processed_block to safeHeight only if the fetch over               *)
(* [lastProcessedBlock + 1, safeHeight] succeeded for every provider; a    *)
(* provider whose fetch failed after retries in that run does not have     *)
(* that block range skipped for it in later runs: every allow-listed       *)
(* transfer to a provider at or below the global watermark is in the       *)
(* ledger.                                                                 *)
(***************************************************************************)
GlobalAdvanced ==
    /\ globalRun.pc = "returned"
    /\ globalRun.lastProcessedBlock < globalRun.safeHeight
    /\ global_state.last_processed_block = globalRun.safeHeight

PayableTransfers ==
    {t \in upstream : /\ \E p \in ProviderSet : ToLowerCase(t.to) = ToLowerCase(wallet_address(p))
                      /\ InAllowList(t, buildTbaLookup)}

C30_GlobalAdvanceOnlyIfAllFetched ==
    /\ GlobalAdvanced => globalRun.fetchFailed = {}
    /\ \A t \in PayableTransfers :
        t.blockNumber <= global_state.last_processed_block
        => \E r \in hypermap_transactions : r.tx_hash = t.hash

(***************************************************************************)
(* C31 (Reconcile is side-effect free): processProviderTransactions writes *)
(* nothing to persisted state (provider_leaderboard,                       *)
(* hypermap_transactions, block_processing_log); it only reads the         *)
(* watermark, fetches, and returns the decision.                           *)
(***************************************************************************)
ReconcileStep ==
    \E p \in ProviderSet :
        /\ status[p] = "pending"
        /\ status'[p] \in {"reconciled", "failed_process"}

C31_ReconcileSideEffectFree == [][ReconcileStep => UNCHANGED dbVars]_vars

(***************************************************************************)
(* C33 (Audit log matches persisted changes): every 'normal_advance' or    *)
(* 'conservative_advance' row in block_processing_log with values          *)
(* (old, new) corresponds to a run that actually changed that provider's   *)
(* persisted last_processed_block from old to new.  (Stated for the row    *)
(* of the current run, once the provider's iteration has completed         *)
(* without a failed write.)                                                *)
(***************************************************************************)
AdvanceRow(p) ==
    LogRow(p, pending[p].fromBlock - 1, pending[p].lastProcessedBlock,
           ChangeType(pending[p].transactions))

C33_AuditLogMatchesPersisted ==
    \A p \in ProviderSet :
        (/\ Completed(status[p])
         /\ pending[p].fetched
         /\ AdvanceRow(p) \in block_processing_log)
        => /\ base[p].row.last_processed_block = AdvanceRow(p).old_block_number
           /\ Watermark(p) = AdvanceRow(p).new_block_number

(***************************************************************************)
(* C34 (last_transaction_block): in every state after an apply, a          *)
(* provider's last_transaction_block equals the highest block_number among *)
(* the hypermap_transactions rows recorded for that provider's wallet.     *)
(***************************************************************************)
RecordedBlocks(p) ==
    {r.block_number : r \in {x \in hypermap_transactions :
        ToLowerCase(x.to_address) = ToLowerCase(wallet_address(p))}}

C34_LastTransactionBlock ==
    \A p \in ProviderSet :
        (status[p] = "applied" /\ RecordedBlocks(p) # {})
        => /\ provider_leaderboard[p].last_transaction_block \in RecordedBlocks(p)
           /\ \A b \in RecordedBlocks(p) : b <= provider_leaderboard[p].last_transaction_block

(***************************************************************************)
(* C32 (Repairs are audited): every time validateAndFixBlockNumber yields  *)
(* a value different from the stored watermark and that value is           *)
(* persisted, a block_processing_log row with change_type                  *)
(* 'corruption_fix', the old value and the new value exists afterwards.    *)
(***************************************************************************)
RepairPersisted(p) ==
    LET storedBlock == runStart[p].last_processed_block
        validatedLastBlock == validateAndFixBlockNumber(storedBlock, safeBlockHeight)
    IN /\ status[p] \notin {"none", "pending"}
       /\ validatedLastBlock # storedBlock
       /\ provider_leaderboard[p].last_processed_block # storedBlock

RepairRow(p) ==
    LogRow(p, runStart[p].last_processed_block,
           validateAndFixBlockNumber(runStart[p].last_processed_block, safeBlockHeight),
           "corruption_fix")

RecordedSenders(p) ==
    {ToLowerCase(r.from_address) : r \in {x \in hypermap_transactions :
        ToLowerCase(x.to_address) = ToLowerCase(wallet_address(p))}}

C35_UniqueSenderCount ==
    \A p \in ProviderSet :
        (status[p] = "applied" /\ Len(pending[p].validTransactions) > 0)
        => provider_leaderboard[p].unique_sender_count = Cardinality(RecordedSenders(p))

(***************************************************************************)
(* C36 (Duplicate hashes inside one batch): if the fetched list for a      *)
(* provider contains the same transaction hash more than once, or a hash   *)
(* already present in the ledger, the apply adds that transaction's value  *)
(* and count to the provider's aggregates at most once in total: the       *)
(* count never exceeds the number of recorded hashes of the wallet and the *)
(* total never exceeds the sum of their recorded values.                   *)
(***************************************************************************)
RecordedRows(p) ==
    {r \in hypermap_transactions : ToLowerCase(r.to_address) = ToLowerCase(wallet_address(p))}

C36_DuplicateHashesCountedOnce ==
    \A p \in ProviderSet :
        /\ provider_leaderboard[p].transaction_count
              <= Cardinality({r.tx_hash : r \in RecordedRows(p)})
        /\ provider_leaderboard[p].total_usdc_received <= SumRows(RecordedRows(p))

(***************************************************************************)
(* C37 (Watermark-only update leaves stats alone): writing a watermark     *)
(* for, or re-registering, a provider that already has a leaderboard row   *)
(* leaves total_usdc_received, transaction_count, unique_sender_count,     *)
(* first_transaction_at and last_transaction_at of that row unchanged.     *)
(***************************************************************************)
AccumulatedStats(row) ==
    <<row.total_usdc_received, row.transaction_count, row.unique_sender_count,
      row.first_transaction_at, row.last_transaction_at>>

WatermarkOnlyCall ==
    /\ call.fn \in {"updateLastProcessedBlock"} \cup RegistrationFunctions
    /\ call.done

C37_WatermarkOnlyLeavesStats ==
    WatermarkOnlyCall =>
        \A p \in ProviderSet :
            runStart[p].present
            => /\ provider_leaderboard[p].present
               /\ AccumulatedStats(provider_leaderboard[p]) = AccumulatedStats(runStart[p])

C37_Witness ==
    /\ call.fn = "updateLastProcessedBlock"
    /\ call.done
    /\ call.returned = "resolved"
    /\ runStart["p1"] = RecordedRow(120)
    /\ provider_leaderboard["p1"].last_processed_block = 99999999
    /\ provider_leaderboard["p1"].transaction_count = 1

(***************************************************************************)
(* C38 (Malformed height responses are errors): getCurrentBlockHeight      *)
(* either returns a non-negative integer block height or fails; a response *)
(* whose result field is not a valid hexadecimal block number is never     *)
(* turned into a height.                                                   *)
(***************************************************************************)
HeightReturned ==
    /\ call.fn \in {"getCurrentBlockHeight", "withRetry(getCurrentBlockHeight)"}
    /\ call.done
    /\ call.returned.kind = "returned"
    /\ Len(call.attempts) > 0

C38_MalformedHeightIsError ==
    HeightReturned =>
        /\ ~call.returned.number.nan
        /\ call.returned.number.n >= 0
        /\ IsHexQuantity(call.attempts[Len(call.attempts)].result)

(***************************************************************************)
(* C39  Parse on read: whether the driver returns the stored               *)
(* last_processed_block as an integer or as a decimal string, the fetch    *)
(* start block is the number stored plus 1, never the stored digits        *)
(* followed by "1" (value * 10 + 1).                                       *)
(***************************************************************************)
FromBlockComputed == call.fn = "fromBlock" /\ call.done

StoredValue == call.args[2]

WaitCompletions == rateLimiter.completions

C40_WaitCompletionsSpaced ==
    \A i, j \in 1..Len(WaitCompletions) :
        i < j => WaitCompletions[j] - WaitCompletions[i] >= minInterval

====
